---------------------------- MODULE Spec2Model ----------------------------
(***************************************************************************)
(* Model of the Whisperrr transcription service (python-service/app):      *)
(*   job_manager.py      Job, JobManager                                   *)
(*   utils.py            sniffer, prober, transcoder, preprocess_audio     *)
(*   whisper_service.py  WhisperService (load_model, transcribe_audio)     *)
(*   main.py             submit_transcription_job, process_transcription_job*)
(*                                                                         *)
(* Two specifications share the variables:                                 *)
(*   SpecPipe  one asynchronous job followed statement group by statement  *)
(*             group through validate_audio_file, preprocess_audio and     *)
(*             _transcribe_sync, every external tool call a step of its own*)
(*   Spec      a client calling the service directly, the jobs, the event  *)
(*             loop, the worker pool, model loads and the sweep; the part  *)
(*             of a coroutine between two awaits is one step, since the    *)
(*             event loop runs it alone                                    *)
(*                                                                         *)
(* Percentages are integers in hundredths of a percent (7.5% is 750).      *)
(***************************************************************************)
EXTENDS Integers, Sequences, FiniteSets, TLC

None == "None"

(***************************** bounds **************************************)
\* most segments the model runtime returns in one call
MaxSegments == 21
\* jobs submitted in one behaviour of Spec
MaxJobs == 1
\* latest clock reading of a sweep
MaxTime == 2

(*********************** configuration (settings) **************************)
PreprocessingProgressMax == 40
TranscriptionProgressMin == 40
TranscriptionProgressMax == 100
SegmentProgressBase == 10
SegmentProgressMax == 90
SegmentProgressMultiplier == 2
MaxConcurrentTranscriptions == 1
JobCleanupMaxAge == 1
CleanupTempFiles == TRUE
DefaultModelSize == "base"
ModelSizes == {"base", "small"}
FormatsRequiringConversion == {"mp4", "avi", "mov", "mkv", "flv", "wmv", "webm", "3gp", "m4v"}
SupportedFormats == {"mp3", "wav", "m4a", "flac", "ogg", "wma", "aac"} \cup FormatsRequiringConversion

\* preprocess_audio's literal list of audio extensions
AudioExtensions == {"mp3", "wav", "m4a", "flac", "ogg", "wma", "aac"}

\* file name extensions of the uploads the model draws from
Exts == {"mp3", "wav", "m4a", "mp4", "mkv", "txt", ""}

VARIABLES
    \* ---- Job Registry
    jobObj,       \* every Job object ever created: id -> fields
    jobs,         \* JobManager._jobs: the ids in the registry
    \* ---- WhisperService
    model,        \* _model: None or the size the loaded runtime was built for
    model_size,   \* _model_size
    is_loading,   \* _is_loading
    active_transcriptions,
    disk,         \* scratch files that exist
    \* ---- one pipeline run (SpecPipe)
    ppc,          \* position of the run
    pin,          \* the upload: [ext, exists, size]
    pdetected,    \* detect_audio_format's result inside validate_audio_file
    file_path,    \* preprocess_audio's file_path
    converted_file,
    processed_file, \* transcribe_audio's processed_file
    pre_outcome,  \* history: None, "returned" or "raised" (preprocess_audio)
    perr,         \* the exception in flight or raised (NoError: none)
    written,      \* history: every progress value written to the job, in order
    stages,       \* history: VALIDATING / CONVERTING steps of the run, in order
    nConv,        \* history: transcoding tool invocations of the run
    nLoad,        \* history: librosa.load calls of the run
    nLoadFail,    \* history: librosa.load calls of the run that raised
    \* ---- the concurrent service (Spec)
    now,          \* the clock reading at which jobs are created (datetime.utcnow), in ticks
    pc,           \* position of each coroutine: 0 is the direct load_model caller, j > 0 is job j
    req,          \* the model_size each coroutine asked for
    task,         \* the work item each coroutine handed to the executor
    queue,        \* ThreadPoolExecutor work queue: owners of the waiting items, in order
    lres,         \* what the client's call returned or raised in the step just taken, else NoReturn
    \* ---- the file functions called on their own (SpecFn)
    fsig,         \* the first bytes of the file, by the signature they match
    fcall,        \* the last call: function, result, what it invoked
    fprev,        \* the tag of the detect_audio_format call before the last call
    probed,       \* SpecPipe: what validate_audio_file_integrity returned to preprocess_audio
    \* ---- one Job object shared by two threads (SpecLock)
    job_lock,     \* Job._lock: None or the thread that holds it
    wcall,        \* the worker's call on the job: method, values, position
    rcall,        \* the client's to_dict call: position and the dict built so far
    jwhole,       \* history: the job's fields when the last mutation returned
    seen,         \* history: the values of jwhole since the client's call began
    reg_lock,     \* JobManager._lock: None or the thread that holds it
    mcall         \* the JobManager call of the event-loop thread: method and position

jobVars  == <<jobObj, jobs>>
svcVars  == <<model, model_size, is_loading, active_transcriptions>>
pipeVars == <<ppc, pin, pdetected, file_path, converted_file, processed_file, pre_outcome, perr, written, stages, nConv, nLoad, nLoadFail>>
conVars  == <<now, pc, req, task, queue, lres>>
fnVars   == <<fsig, fcall, fprev, probed>>
lockVars == <<job_lock, wcall, rcall, jwhole, seen, reg_lock, mcall>>
vars     == <<jobVars, svcVars, disk, pipeVars, conVars, fnVars, lockVars>>

Min(a, b) == IF a < b THEN a ELSE b
Max(a, b) == IF a > b THEN a ELSE b
Last(s) == s[Len(s)]
Pct(n) == n * 100

(******************************* Job ***************************************)
\* Job.__init__
NewJob(t) == [status |-> "PENDING", progress |-> 0, result |-> None, error |-> None, created_at |-> t]

\* Job.update_progress: clamp into 0..100
update_progress(job, progress) == [job EXCEPT !.progress = Max(0, Min(Pct(100), progress))]

\* a set_status that writes nothing
set_status_ignored(job, status) == job

\* Job.set_status
set_status(job, status) == [job EXCEPT !.status = status]

\* the result stored without the status
set_result_keepStatus(job, result) == [job EXCEPT !.result = result, !.progress = Pct(100)]

\* Job.set_result
set_result(job, result) == [job EXCEPT !.result = result, !.status = "COMPLETED", !.progress = Pct(100)]

\* the error stored without the status
set_error_keepStatus(job, error) == [job EXCEPT !.error = error]

\* Job.set_error
set_error(job, error) == [job EXCEPT !.error = error, !.status = "FAILED"]

\* no attribute read yet, no call in progress, no thread in a Job method
Blank == [status |-> "?", progress |-> -1, result |-> "?", error |-> "?"]

NoMethod == [fn |-> None, target |-> Blank, at |-> 0]

LockIdle ==
    /\ job_lock = None
    /\ wcall = NoMethod
    /\ rcall = [at |-> 0, snap |-> Blank]
    /\ jwhole = Blank
    /\ seen = {}
    /\ reg_lock = None
    /\ mcall = [fn |-> None, at |-> 0]

(************************ progress rescaling *******************************)
\* preprocess_audio.update_progress: stage-local value -> job scale
MapPreprocess(p) == (p * PreprocessingProgressMax) \div 100

\* transcribe_audio.transcription_callback: _transcribe_sync value -> job scale
MapTranscription(p) == Pct(TranscriptionProgressMin) + (p * (TranscriptionProgressMax - TranscriptionProgressMin)) \div 100

\* the lambdas handed to the converters: base + p * factor (factor in percent)
MapConversion(base, factor, p) == base + (p * factor) \div 100

\* _transcribe_sync: progress reported at segment idx (idx % 10 = 0)
SegmentProgress(idx) == Min(Pct(SegmentProgressMax), Pct(SegmentProgressBase) + idx * Pct(SegmentProgressMultiplier))

\* the values a job's progress_callback receives are written one after another
RECURSIVE ApplyProgress(_, _)
ApplyProgress(job, seq) == IF seq = <<>> THEN job ELSE ApplyProgress(update_progress(job, Head(seq)), Tail(seq))

Clamped(seq) == [i \in 1..Len(seq) |-> update_progress(NewJob(0), seq[i]).progress]

(**************************** Format Sniffer *******************************)
\* what the ffprobe call of detect_audio_format yields: the tool is absent,
\* times out, exits nonzero, prints unparsable JSON, or names a format family
ProbeResults == {"absent", "timeout", "nonzero", "badjson", "mp4", "mp4aac", "matroska", "avi", "flv", "wmv", "3gp", "other"}

\* the first 16 bytes of the file, by the table entry they match
Signatures == {"ID3", "WAVE", "OggS", "fLaC", "ftyp", "ASF", "AVI", "EBML", "FLV", "ADTS", "nomatch", "unreadable"}

\* detect_audio_format, lines 56-99: the tag the probe branch returns, or None
\* when it falls through to the signature table
ProbeTag(probe, ext) ==
    CASE probe = "mp4" -> (IF ext = "m4a" THEN "m4a" ELSE IF ext \in {"mp4", "mov", "m4v"} THEN ext ELSE "mp4")
      [] probe = "mp4aac" -> (IF ext = "m4a" THEN "m4a" ELSE IF ext \in {"mp4", "mov", "m4v"} THEN ext ELSE "m4a")
      [] probe = "matroska" -> (IF ext \in {"mkv", "webm"} THEN ext ELSE "mkv")
      [] probe \in {"avi", "flv", "wmv", "3gp"} -> probe
      [] OTHER -> None

\* detect_audio_format, lines 101-146: signature table, then the extension.
\* The ftyp branch seeks on the file it has already closed: the ValueError is
\* caught by the outer handler, which returns the extension.  The second ASF
\* entry (wmv) is shadowed by the first (wma).
SignatureTag(sig, ext) ==
    CASE sig = "ID3" -> "mp3"
      [] sig = "WAVE" -> "wav"
      [] sig = "OggS" -> "ogg"
      [] sig = "fLaC" -> "flac"
      [] sig = "ftyp" -> ext
      [] sig = "ASF" -> "wma"
      [] sig = "AVI" -> "avi"
      [] sig = "EBML" -> ext
      [] sig = "FLV" -> "flv"
      [] sig = "ADTS" -> "aac"
      [] OTHER -> ext

\* the formats each entry of the signature table (lines 104-141) stands for;
\* no entry for bytes that match nothing or cannot be read
SignatureFamily(sig) ==
    CASE sig = "ID3" -> {"mp3"}
      [] sig = "WAVE" -> {"wav"}
      [] sig = "OggS" -> {"ogg"}
      [] sig = "fLaC" -> {"flac"}
      [] sig = "ftyp" -> {"m4a", "mp4", "mov", "m4v", "3gp"}
      [] sig = "ASF" -> {"wma", "wmv"}
      [] sig = "AVI" -> {"avi"}
      [] sig = "EBML" -> {"mkv", "webm"}
      [] sig = "FLV" -> {"flv"}
      [] sig = "ADTS" -> {"aac"}
      [] OTHER -> {}

\* the exception the signature branch raises: open() fails, or the ftyp
\* entry seeks on the closed file (line 112)
SignatureRaises(sig) ==
    CASE sig = "unreadable" -> "OSError"
      [] sig = "ftyp" -> "ValueError"
      [] OTHER -> None

\* no entry of the table returns: the function reaches line 143
NoSignatureMatch(sig, ext) == sig = "nomatch" \/ (sig = "EBML" /\ ext \notin {"mkv", "webm"})

\* the existence and size checks removed
UsableFile_unchecked(f) == TRUE

\* detect_audio_format, lines 43-52: the file exists and is not empty
UsableFile(f) == f.exists /\ f.size # "zero"

\* detect_audio_format, lines 145-146: except Exception: return the extension
OuterHandler(exc, ext) == [tag |-> ext, raised |-> None]

\* detect_audio_format(file_path): the tag, the exception that leaves the
\* function (None: it returns), and the strategies it consulted in order
Sniff(f, probe, sig) ==
    IF ~UsableFile(f) THEN [tag |-> None, raised |-> None, trace |-> <<>>]
    ELSE IF ProbeTag(probe, f.ext) # None
    THEN [tag |-> ProbeTag(probe, f.ext), raised |-> None, trace |-> <<"ffprobe">>]
    ELSE IF SignatureRaises(sig) # None
    THEN LET h == OuterHandler(SignatureRaises(sig), f.ext)
         IN  [tag |-> h.tag, raised |-> h.raised, trace |-> <<"ffprobe", "signature", "extension">>]
    ELSE IF NoSignatureMatch(sig, f.ext)
    THEN [tag |-> SignatureTag(sig, f.ext), raised |-> None, trace |-> <<"ffprobe", "signature", "extension">>]
    ELSE [tag |-> SignatureTag(sig, f.ext), raised |-> None, trace |-> <<"ffprobe", "signature">>]

\* detect_audio_format(file_path): the tag
detect_audio_format(f, probe, sig) == Sniff(f, probe, sig).tag

\* validate_audio_file(file_path): the exception it raises (None when it
\* returns) and the format it saw
validate_audio_file(f, probe, sig) ==
    LET detected == detect_audio_format(f, probe, sig)
        format_to_check == IF detected \in {None, ""} THEN f.ext ELSE detected
    IN  IF ~f.exists THEN [error |-> "FileSystemError", format |-> None]
        ELSE IF f.size = "toolarge" THEN [error |-> "FileTooLarge", format |-> None]
        ELSE IF format_to_check = "" \/ format_to_check \notin SupportedFormats
             THEN [error |-> "InvalidAudioFormat", format |-> detected]
        ELSE [error |-> None, format |-> detected]

\* validate_audio_file(file_path): what it invoked, in order: the sniffer's
\* strategies once the existence and size checks passed, then get_audio_info
\* (librosa) for an accepted file that is not a video format (lines 591-602)
ValidateTrace(f, probe, sig) ==
    LET v == validate_audio_file(f, probe, sig)
        sniffed == f.exists /\ f.size # "toolarge"
        read == v.error = None /\ v.format \notin FormatsRequiringConversion
    IN  (IF sniffed THEN Sniff(f, probe, sig).trace ELSE <<>>) \o (IF read THEN <<"get_audio_info">> ELSE <<>>)

(*************************** Integrity Prober ******************************)
ToolResults == {"zero", "nonzero", "timeout", "notfound", "error"}

\* validate_audio_file_integrity(file_path): p1, p2 are the outcomes of the
\* two ffprobe invocations, dur whether librosa.get_duration succeeds
\* a failing duration check left without effect
Unreadable_ignored(calls) == [valid |-> TRUE, detail |-> None, calls |-> calls]

\* validate_audio_file_integrity, lines 192-196: librosa.get_duration raises
Unreadable(calls) == [valid |-> FALSE, detail |-> "cannot be read", calls |-> calls]

\* a missing ffprobe reported as a failed validation
ToolMissing_fails(calls) == [valid |-> FALSE, detail |-> "validation failed", calls |-> calls]

\* validate_audio_file_integrity, lines 202-204: FileNotFoundError, ffprobe is
\* not available and the validation is skipped
ToolMissing(calls) == [valid |-> TRUE, detail |-> None, calls |-> calls]

\* the timeout handled like the other exceptions of the probe
TimedOut_skipped(calls) == [valid |-> TRUE, detail |-> None, calls |-> calls]

\* validate_audio_file_integrity, lines 200-201: subprocess.TimeoutExpired
TimedOut(calls) == [valid |-> FALSE, detail |-> "timed out", calls |-> calls]

\* validate_audio_file_integrity (lines 149-207), by the outcome of the first
\* probe, of the second and of librosa.get_duration
validate_audio_file_integrity(p1, p2, dur) ==
    LET second == p1 = "nonzero"
        t == IF second THEN p2 ELSE p1
        calls == IF second THEN 2 ELSE 1
    IN  IF p1 = "timeout" THEN TimedOut(1)
        ELSE IF p1 = "notfound" THEN ToolMissing(1)
        ELSE IF p1 = "error" THEN [valid |-> TRUE, detail |-> None, calls |-> 1]
        ELSE IF t = "timeout" THEN TimedOut(calls)
        ELSE IF t = "notfound" THEN ToolMissing(calls)
        ELSE IF t = "error" THEN [valid |-> TRUE, detail |-> None, calls |-> calls]
        ELSE IF t = "nonzero" THEN [valid |-> FALSE, detail |-> "validation failed", calls |-> calls]
        ELSE IF ~dur THEN Unreadable(calls)
        ELSE [valid |-> TRUE, detail |-> None, calls |-> calls]

\* validate_audio_file_integrity: what it invoked, in order: the probe
\* requiring an audio stream, the probe accepting a container, and
\* librosa.get_duration
IntegrityTrace(p1, p2) ==
    LET second == p1 = "nonzero"
        checked == p1 = "zero" \/ (second /\ p2 = "zero")
    IN  <<"ffprobe_audio_stream">>
        \o (IF second THEN <<"ffprobe_container">> ELSE <<>>)
        \o (IF checked THEN <<"get_duration">> ELSE <<>>)

\* the outcomes of the invocations the call made, in the same order
IntegrityOutcomes(p1, p2, dur) ==
    LET second == p1 = "nonzero"
        checked == p1 = "zero" \/ (second /\ p2 = "zero")
    IN  <<p1>>
        \o (IF second THEN <<p2>> ELSE <<>>)
        \o (IF checked THEN <<IF dur THEN "ok" ELSE "raises">> ELSE <<>>)

\* the invocation that ended the call found no ffprobe on the host
ToolAbsent(p1, p2) == p1 = "notfound" \/ (p1 = "nonzero" /\ p2 = "notfound")

(****************************** Transcoder *********************************)
\* outcomes of one converter call: create_temp_file raises (tmpfail), ffmpeg
\* is absent, times out, exits nonzero, exits zero with an empty or with no
\* output file, or succeeds
TranscoderOutcomes == {"ok", "nonzero", "empty", "missing", "timeout", "notfound", "tmpfail"}

\* the output file is not checked: a zero exit is a success
Converted_unverified(outcome) == outcome \in {"ok", "empty", "missing"}

\* convert_audio_file, lines 313-330: the path is returned after a zero exit
\* and the check that the output file exists and is not empty
Converted(outcome) == outcome = "ok"

\* convert_audio_file / convert_video_to_audio share their body.  cb: the
\* stage-local values handed to progress_callback; invoked: ffmpeg was run;
\* output: an output file exists afterwards (leftover: a failed or killed
\* ffmpeg left a partial file); ok: the call returns the output path.
\* message, diagnostic: message and original_error of the AudioProcessingError
\* that leaves the function.  The errors raised inside the try block (nonzero
\* exit, lines 313-319; output check, lines 322-327) are caught by the
\* function's own `except Exception` (lines 345-350) and raised again with the
\* generic message and original_error = str(e)
Transcode(step, outcome, leftover) ==
    [ step    |-> step,
      ok      |-> Converted(outcome),
      invoked |-> outcome # "tmpfail",
      output  |-> outcome \in {"ok", "empty"} \/ (outcome \in {"nonzero", "timeout"} /\ leftover),
      message |-> CASE outcome = "ok" -> None
                    [] outcome = "notfound" -> "FFmpeg not found"
                    [] outcome = "timeout" -> "timed out"
                    [] OTHER -> "Failed to convert",
      diagnostic |-> CASE outcome = "ok" -> None
                    [] outcome = "notfound" -> "FFmpeg executable not found"
                    [] outcome = "timeout" -> "FFmpeg conversion timeout"
                    [] outcome = "nonzero" -> "str(AudioProcessingError(original_error=stderr))"
                    [] outcome \in {"empty", "missing"} -> "str(AudioProcessingError(empty or missing output))"
                    [] OTHER -> "str(FileSystemError)",
      cb      |-> CASE outcome = "tmpfail" -> <<0>>
                    [] outcome \in {"notfound", "timeout"} -> <<0, Pct(10), Pct(30)>>
                    [] outcome = "ok" -> <<0, Pct(10), Pct(30), Pct(80), Pct(100)>>
                    [] OTHER -> <<0, Pct(10), Pct(30), Pct(80)>> ]

convert_audio_file(outcome, leftover) == Transcode("convert_audio_file", outcome, leftover)

convert_video_to_audio(outcome, leftover) == Transcode("convert_video_to_audio", outcome, leftover)

(******************* one asynchronous job, step by step ********************)
\* the job whose pipeline run SpecPipe follows
PJob == 1
Upload == "upload"
Canonical == "canonical"
\* the scratch file the n-th transcoder invocation of a run writes
ConvertedName(n) == CASE n = 1 -> "converted1" [] n = 2 -> "converted2" [] OTHER -> "converted3"
ConvertedFiles == {"converted1", "converted2", "converted3"}
\* no exception
NoError == [type |-> None, step |-> None, message |-> None, origin |-> None]

\* segment counts the model runtime is asked to return
SegCounts == {0, 1, 11, MaxSegments}

\* progress_callback of process_transcription_job: job.update_progress
Emit(seq) ==
    /\ jobObj' = [jobObj EXCEPT ![PJob] = ApplyProgress(@, seq)]
    /\ written' = written \o Clamped(seq)

\* preprocess_audio.update_progress applied to a list of stage-local values
EmitPre(seq) == Emit([i \in 1..Len(seq) |-> MapPreprocess(seq[i])])

\* transcription_callback applied to a list of _transcribe_sync values
EmitTs(seq) == Emit([i \in 1..Len(seq) |-> MapTranscription(seq[i])])

\* no check at all: the call goes on without a model
ModelNotLoaded_skipped == FALSE

\* transcribe_audio, lines 192-193: the check that a model is loaded
ModelNotLoaded == model = None

\* process_transcription_job, line 272, then transcribe_audio up to
\* validate_audio_file: the model check, the counter increment and
\* progress_callback(0.0).  The job asks for no model size.
PStart ==
    /\ ppc = "start"
    /\ IF ModelNotLoaded
       THEN /\ jobObj' = [jobObj EXCEPT ![PJob] = set_status(@, "PROCESSING")]
            /\ perr' = [type |-> "ModelNotLoaded", step |-> "transcribe_audio", message |-> "No model is currently loaded", origin |-> "transcribe_audio"]
            /\ ppc' = "job_except"
            /\ UNCHANGED <<written, active_transcriptions>>
       ELSE /\ jobObj' = [jobObj EXCEPT ![PJob] = update_progress(set_status(@, "PROCESSING"), 0)]
            /\ written' = written \o <<0>>
            /\ active_transcriptions' = active_transcriptions + 1
            /\ perr' = perr
            /\ ppc' = "validate"
    /\ UNCHANGED <<jobs, model, model_size, is_loading, disk, pin, pdetected, file_path, converted_file, processed_file, pre_outcome, stages, nConv, nLoad, nLoadFail, conVars, fnVars, lockVars>>

\* validate_audio_file(file_path), whatever the probe tool and the header give
PValidate ==
    /\ ppc = "validate"
    /\ \E probe \in ProbeResults, sig \in Signatures :
         LET v == validate_audio_file(pin, probe, sig)
         IN  /\ pdetected' = v.format
             /\ IF v.error # None
                THEN /\ perr' = [type |-> v.error, step |-> "validate_audio_file", message |-> v.error, origin |-> "validate_audio_file"]
                     /\ ppc' = "raise"
                ELSE /\ perr' = perr
                     /\ ppc' = "preprocess"
    /\ UNCHANGED <<jobVars, svcVars, disk, pin, file_path, converted_file, processed_file, pre_outcome, written, stages, nConv, nLoad, nLoadFail, conVars, fnVars, lockVars>>

\* no extension is taken for a video format
RequiresExtraction_never(file_extension) == FALSE

\* preprocess_audio, line 459: is_video_format
RequiresExtraction(file_extension) == file_extension \in FormatsRequiringConversion

\* preprocess_audio, lines 455-473: the branch on the file name's extension
PPreprocess ==
    /\ ppc = "preprocess"
    /\ LET file_extension == pin.ext
           is_video_format == RequiresExtraction(file_extension)
           is_audio_format == file_extension \in AudioExtensions
       IN  IF is_video_format
           THEN /\ EmitPre(<<0, Pct(2), Pct(5)>>)
                /\ stages' = Append(stages, "CONVERTING_extract")
                /\ ppc' = "extract"
           ELSE IF is_audio_format
           THEN /\ EmitPre(<<0, Pct(2), Pct(5)>>)
                /\ stages' = Append(stages, "VALIDATING")
                /\ ppc' = "probe"
           ELSE /\ EmitPre(<<0, Pct(2)>>)
                /\ stages' = stages
                /\ ppc' = "info"
    /\ UNCHANGED <<jobs, svcVars, disk, pin, pdetected, file_path, converted_file, processed_file, pre_outcome, perr, nConv, nLoad, nLoadFail, conVars, fnVars, lockVars>>

\* every audio file is converted, whatever the Integrity Prober says
NeedsConversion_always(r) == TRUE

\* preprocess_audio, line 476: `if not is_valid or error_msg`
NeedsConversion(r) == ~r.valid \/ r.detail # None

\* preprocess_audio, lines 474-482: the Integrity Prober and the branch on it
PProbe ==
    /\ ppc = "probe"
    /\ \E p1 \in ToolResults, p2 \in ToolResults, dur \in BOOLEAN :
         LET r == validate_audio_file_integrity(p1, p2, dur)
         IN  /\ probed' = [absent |-> ToolAbsent(p1, p2), valid |-> r.valid, detail |-> r.detail, calls |-> r.calls]
             /\ IF NeedsConversion(r)
                THEN /\ EmitPre(<<Pct(10)>>)
                     /\ stages' = Append(stages, "CONVERTING_convert")
                     /\ ppc' = "convert"
                ELSE /\ EmitPre(<<Pct(10)>>)
                     /\ stages' = stages
                     /\ ppc' = "info"
    /\ UNCHANGED <<jobs, svcVars, disk, pin, pdetected, file_path, converted_file, processed_file, pre_outcome, perr, nConv, nLoad, nLoadFail, conVars, lockVars, fsig, fcall, fprev>>

\* the three converter calls of preprocess_audio (lines 467, 478, 496) with
\* the lambda each passes: base + p * factor
ConverterCall(at) ==
    CASE at = "extract" -> [base |-> Pct(5), factor |-> 25, done |-> <<Pct(30)>>, next |-> "info"]
      [] at = "convert" -> [base |-> Pct(10), factor |-> 20, done |-> <<Pct(30)>>, next |-> "info"]
      [] at = "rescue" -> [base |-> Pct(35), factor |-> 5, done |-> <<>>, next |-> "load2"]

\* one converter call: it returns (converted_file and file_path are assigned)
\* or raises into preprocess_audio's handler
PTranscode ==
    /\ ppc \in {"extract", "convert", "rescue"}
    /\ \E outcome \in TranscoderOutcomes, leftover \in BOOLEAN :
         LET c == ConverterCall(ppc)
             t == IF ppc = "extract" THEN convert_video_to_audio(outcome, leftover) ELSE convert_audio_file(outcome, leftover)
             out == ConvertedName(nConv + 1)
             cbs == [i \in 1..Len(t.cb) |-> MapConversion(c.base, c.factor, t.cb[i])]
         IN  /\ nConv' = IF t.invoked THEN nConv + 1 ELSE nConv
             /\ disk' = IF t.output THEN disk \cup {out} ELSE disk
             /\ IF t.ok
                THEN /\ EmitPre(cbs \o c.done)
                     /\ converted_file' = out
                     /\ file_path' = out
                     /\ perr' = perr
                     /\ ppc' = c.next
                ELSE /\ EmitPre(cbs)
                     /\ UNCHANGED <<converted_file, file_path>>
                     /\ perr' = [type |-> "AudioProcessingError", step |-> t.step, message |-> t.message, origin |-> t.step]
                     /\ ppc' = "except"
    /\ UNCHANGED <<jobs, svcVars, pin, pdetected, processed_file, pre_outcome, stages, nLoad, nLoadFail, conVars, fnVars, lockVars>>

\* preprocess_audio, lines 485-488: get_audio_info(file_path)
PInfo ==
    /\ ppc = "info"
    /\ \E ok \in BOOLEAN :
         IF ok
         THEN /\ EmitPre(<<Pct(30), Pct(32)>>)
              /\ perr' = perr
              /\ ppc' = "load1"
         ELSE /\ EmitPre(<<Pct(30)>>)
              /\ perr' = [type |-> "AudioProcessingError", step |-> "get_audio_info", message |-> "Failed to get audio information", origin |-> "get_audio_info"]
              /\ ppc' = "except"
    /\ UNCHANGED <<jobs, svcVars, disk, pin, pdetected, file_path, converted_file, processed_file, pre_outcome, stages, nConv, nLoad, nLoadFail, conVars, fnVars, lockVars>>

\* a rescue conversion whatever was converted before
ShouldRescue_always == TRUE

\* preprocess_audio, line 494: the guard of the rescue conversion
ShouldRescue == converted_file = None

\* preprocess_audio, lines 490-497: the first librosa.load and its handler
PLoad1 ==
    /\ ppc = "load1"
    /\ nLoad' = nLoad + 1
    /\ \E ok \in BOOLEAN :
         IF ok
         THEN /\ ppc' = "load2"
              /\ UNCHANGED <<jobObj, written, stages, nLoadFail>>
         ELSE /\ nLoadFail' = nLoadFail + 1
              /\ IF ShouldRescue
                 THEN /\ EmitPre(<<Pct(35)>>)
                      /\ stages' = Append(stages, "CONVERTING_rescue")
                      /\ ppc' = "rescue"
                 ELSE /\ ppc' = "load2"
                      /\ UNCHANGED <<jobObj, written, stages>>
    /\ UNCHANGED <<jobs, svcVars, disk, pin, pdetected, file_path, converted_file, processed_file, pre_outcome, perr, nConv, conVars, fnVars, lockVars>>

\* preprocess_audio, line 501: the guard of the cleanup after loading
ShouldCleanupConverted == converted_file # None /\ converted_file \in disk /\ converted_file # file_path

\* preprocess_audio, lines 498-520: the librosa.load that follows the
\* try/except (it runs on every path), the cleanup of the converted file,
\* resample when the rates differ, normalize
PLoad2 ==
    /\ ppc = "load2"
    /\ nLoad' = nLoad + 1
    /\ \E ok \in BOOLEAN, resample \in BOOLEAN :
         IF ok
         THEN /\ IF ShouldCleanupConverted
                 THEN disk' = disk \ {converted_file} /\ converted_file' = None
                 ELSE UNCHANGED <<disk, converted_file>>
              /\ EmitPre(IF resample THEN <<Pct(36), Pct(37), Pct(38), Pct(39)>> ELSE <<Pct(36), Pct(38), Pct(39)>>)
              /\ ppc' = "save"
              /\ UNCHANGED <<perr, nLoadFail>>
         ELSE /\ nLoadFail' = nLoadFail + 1
              /\ perr' = [type |-> "Exception", step |-> "load", message |-> "load failed", origin |-> "load"]
              /\ ppc' = "except"
              /\ UNCHANGED <<jobObj, written, disk, converted_file>>
    /\ UNCHANGED <<jobs, svcVars, pin, pdetected, file_path, processed_file, pre_outcome, stages, nConv, conVars, fnVars, lockVars>>

\* preprocess_audio, lines 521-527: write the canonical waveform and return
PSave ==
    /\ ppc = "save"
    /\ \E ok \in BOOLEAN :
         IF ok
         THEN /\ disk' = disk \cup {Canonical}
              /\ EmitPre(<<Pct(40)>>)
              /\ processed_file' = Canonical
              /\ pre_outcome' = "returned"
              /\ perr' = perr
              /\ ppc' = "ts_begin"
         ELSE /\ perr' = [type |-> "Exception", step |-> "save", message |-> "write failed", origin |-> "save"]
              /\ ppc' = "except"
              /\ UNCHANGED <<jobObj, written, disk, processed_file, pre_outcome>>
    /\ UNCHANGED <<jobs, svcVars, pin, pdetected, file_path, converted_file, stages, nConv, nLoad, nLoadFail, conVars, fnVars, lockVars>>

\* preprocess_audio, lines 529-540: the handler deletes the pending converted
\* file and raises AudioProcessingError(processing_step="preprocess_audio")
PExcept ==
    /\ ppc = "except"
    /\ disk' = IF converted_file # None /\ converted_file \in disk THEN disk \ {converted_file} ELSE disk
    /\ perr' = [type |-> "AudioProcessingError", step |-> "preprocess_audio", message |-> "Failed to preprocess audio", origin |-> perr.origin]
    /\ pre_outcome' = "raised"
    /\ ppc' = "raise"
    /\ UNCHANGED <<jobVars, svcVars, pin, pdetected, file_path, converted_file, processed_file, written, stages, nConv, nLoad, nLoadFail, conVars, fnVars, lockVars>>

\* _transcribe_sync, lines 281-284, through transcription_callback
PTsBegin ==
    /\ ppc = "ts_begin"
    /\ EmitTs(<<0, Pct(5)>>)
    /\ ppc' = "runtime"
    /\ UNCHANGED <<jobs, svcVars, disk, pin, pdetected, file_path, converted_file, processed_file, pre_outcome, perr, stages, nConv, nLoad, nLoadFail, conVars, fnVars, lockVars>>

\* _transcribe_sync: the values reported in the segment loop (idx % 10 = 0)
SegmentEmits(nseg) == [k \in 1..((nseg + 9) \div 10) |-> SegmentProgress((k - 1) * 10)]

\* _transcribe_sync, lines 286-361: the model runtime call and the rest
PRuntime ==
    /\ ppc = "runtime"
    /\ \/ \E nseg \in SegCounts :
            /\ EmitTs(<<Pct(10)>> \o SegmentEmits(nseg) \o <<Pct(95), Pct(100)>>)
            /\ perr' = perr
            /\ ppc' = "respond"
       \/ /\ perr' = [type |-> "TranscriptionFailed", step |-> "transcribe", message |-> "Transcription failed", origin |-> "transcribe"]
          /\ ppc' = "raise"
          /\ UNCHANGED <<jobObj, written>>
    /\ UNCHANGED <<jobs, svcVars, disk, pin, pdetected, file_path, converted_file, processed_file, pre_outcome, stages, nConv, nLoad, nLoadFail, conVars, fnVars, lockVars>>

\* the finally block leaves the disk as it is
CleanupProcessed_skipped(d) == d

\* transcribe_audio, lines 247-250: the finally around preprocessing and
\* transcription
CleanupProcessed(d) == IF processed_file # None /\ CleanupTempFiles THEN d \ {processed_file} ELSE d

\* transcribe_audio, lines 238-263, then process_transcription_job, lines
\* 286-296: build the response, clean up, set_result, delete the upload
PRespond ==
    /\ ppc = "respond"
    /\ \/ /\ jobObj' = [jobObj EXCEPT ![PJob] = set_result(@, model_size)]
          /\ written' = Append(written, Pct(100))
          /\ disk' = CleanupProcessed(disk) \ {Upload}
          /\ active_transcriptions' = active_transcriptions - 1
          /\ perr' = perr
          /\ ppc' = "done"
       \/ /\ perr' = [type |-> "TranscriptionFailed", step |-> "response", message |-> "Transcription failed", origin |-> "response"]
          /\ ppc' = "raise"
          /\ UNCHANGED <<jobObj, written, disk, active_transcriptions>>
    /\ UNCHANGED <<jobs, model, model_size, is_loading, pin, pdetected, file_path, converted_file, processed_file, pre_outcome, stages, nConv, nLoad, nLoadFail, conVars, fnVars, lockVars>>

\* an exception leaves transcribe_audio through its two finally blocks
\* (lines 247-263)
PRaise ==
    /\ ppc = "raise"
    /\ disk' = CleanupProcessed(disk)
    /\ active_transcriptions' = active_transcriptions - 1
    /\ ppc' = "job_except"
    /\ UNCHANGED <<jobVars, model, model_size, is_loading, pin, pdetected, file_path, converted_file, processed_file, pre_outcome, perr, written, stages, nConv, nLoad, nLoadFail, conVars, fnVars, lockVars>>

\* process_transcription_job, lines 287-296: set_error, delete the upload
PJobExcept ==
    /\ ppc = "job_except"
    /\ jobObj' = [jobObj EXCEPT ![PJob] = set_error(@, perr.type)]
    /\ disk' = disk \ {Upload}
    /\ ppc' = "done"
    /\ UNCHANGED <<jobs, svcVars, pin, pdetected, file_path, converted_file, processed_file, pre_outcome, perr, written, stages, nConv, nLoad, nLoadFail, conVars, fnVars, lockVars>>

\* no file function has been called
NoCall == [fn |-> None, tools |-> <<>>, tag |-> None, error |-> None, valid |-> FALSE, detail |-> None, trace |-> <<>>, step |-> None]

\* the call before this one was not a detect_audio_format call; otherwise
\* fprev holds the tag that call returned and the outcome of its probe
NoTag == [tag |-> "-", probe |-> "-"]

\* the run has not called validate_audio_file_integrity
NoProbe == [absent |-> FALSE, valid |-> FALSE, detail |-> None, calls |-> 0]

\* no call of the client returned in the step just taken
NoReturn == [call |-> None, size |-> None, value |-> None]

\* no work item
NoTask == [kind |-> None, size |-> None, state |-> "none", ok |-> FALSE, waited |-> FALSE, used |-> None]

\* the uploads SpecPipe draws from
Uploads == [ext : Exts, exists : BOOLEAN, size : {"zero", "ok", "toolarge"}]

InitPipe ==
    /\ jobObj = [j \in {PJob} |-> NewJob(0)]
    /\ jobs = {PJob}
    /\ model \in {None, DefaultModelSize}
    /\ model_size = model
    /\ is_loading = FALSE
    /\ active_transcriptions = 0
    /\ pin \in Uploads
    /\ disk = IF pin.exists THEN {Upload} ELSE {}
    /\ ppc = "start"
    /\ pdetected = None
    /\ file_path = Upload
    /\ converted_file = None
    /\ processed_file = None
    /\ pre_outcome = None
    /\ perr = NoError
    /\ written = <<>>
    /\ stages = <<>>
    /\ nConv = 0
    /\ nLoad = 0
    /\ nLoadFail = 0
    /\ LockIdle
    /\ now = 0
    /\ pc = [o \in 0..MaxJobs |-> "off"]
    /\ req = [o \in 0..MaxJobs |-> None]
    /\ task = [o \in 0..MaxJobs |-> NoTask]
    /\ queue = <<>>
    /\ lres = NoReturn
    /\ fsig = "nomatch"
    /\ fcall = NoCall
    /\ fprev = NoTag
    /\ probed = NoProbe

NextPipe ==
    \/ PStart
    \/ PValidate
    \/ PPreprocess
    \/ PProbe
    \/ PTranscode
    \/ PInfo
    \/ PLoad1
    \/ PLoad2
    \/ PSave
    \/ PExcept
    \/ PTsBegin
    \/ PRuntime
    \/ PRespond
    \/ PRaise
    \/ PJobExcept

SpecPipe == InitPipe /\ [][NextPipe]_vars

(*************************** the running service ***************************)
\* coroutines: 0 is a client that calls the service directly (load_model, or
\* POST /transcribe), j > 0 is process_transcription_job of job j
Owners == 0..MaxJobs
JobIds == 1..MaxJobs
\* the work items that hold a worker thread (hung: the model runtime call of
\* the item never returns)
Running == {o \in Owners : task[o].state \in {"running", "calling", "hung"}}

\* lifespan has not begun its shutdown: requests are accepted and the
\* periodic sweep runs
Serving == pc[0] \notin {"draining", "stopped"}

\* the event loop has not been stopped: lifespan's shutdown has not finished
LoopAlive == pc[0] # "stopped"

\* every worker thread takes an item whatever the pool size
WorkerFree_unbounded == TRUE

\* ThreadPoolExecutor(max_workers=settings.max_concurrent_transcriptions):
\* a worker thread is idle
WorkerFree == Cardinality(Running) < MaxConcurrentTranscriptions

\* loop.run_in_executor(self._executor, ...): the item joins the work queue
run_in_executor(o, kind, size) ==
    /\ queue' = Append(queue, o)
    /\ task' = [task EXCEPT ![o] = [kind |-> kind, size |-> size, state |-> "queued", ok |-> FALSE, waited |-> (~WorkerFree \/ queue # <<>>), used |-> None]]

\* the entry stays in the registry
delete_job_noop(registry, j) == registry

\* JobManager.delete_job, lines 102-105
delete_job(registry, j) == registry \ {j}

\* a sweep that also removes the jobs whose age is exactly the window
Expired_inclusive(job, utcnow) == job.created_at <= utcnow - JobCleanupMaxAge

\* cleanup_old_jobs, lines 114-119: job.created_at < cutoff
Expired(job, utcnow) == job.created_at < utcnow - JobCleanupMaxAge

\* JobManager.cleanup_old_jobs: the registry after a sweep that reads utcnow
cleanup_old_jobs(registry, utcnow) == {j \in registry : ~Expired(jobObj[j], utcnow)}

\* the already-loaded shortcut of line 121 removed
AlreadyLoaded_never(size) == FALSE

\* load_model, line 121: the model asked for is loaded
AlreadyLoaded(size) == model # None /\ model_size = size /\ ~is_loading

\* a second load is started while one is in progress
LoadInProgress_ignored == FALSE

\* load_model, line 131: a load is in progress
LoadInProgress == is_loading

\* load_model, lines 120-137: return at once, raise ModelLoadFailed, or load
LoadModelOutcome(size) == IF AlreadyLoaded(size) THEN "noop" ELSE IF LoadInProgress THEN "busy" ELSE "start"

\* the two ModelLoadFailed of load_model, lines 132 and 161
LoadBusy == "ModelLoadFailed: already being loaded"
LoadFailed == "ModelLoadFailed: failed to load"

\* the two return values of load_model, lines 122 and 153
LoadNoop == "already loaded"
Loaded == "loaded successfully"

\* what a call of the client gave: the call, the model size it named, and the
\* value it returned or the exception it raised
Ret(call, size, value) == [call |-> call, size |-> size, value |-> value]

\* the call the client is in, and the model size it named
CurrentCall == IF pc[0] = "load_await" THEN "load_model" ELSE "transcribe_audio"
CurrentSize == IF pc[0] = "load_await" THEN task[0].size ELSE req[0]

\* the stage-local value last written when preprocess_audio raises in Spec
PreprocessFailPoint == Pct(32)

\* progress_callback of process_transcription_job, lines 276-277; the
\* synchronous endpoint passes none
Report(jm, o, seq) == IF o = 0 THEN jm ELSE [jm EXCEPT ![o] = ApplyProgress(@, seq)]

\* the exception leaves the coroutine of o and nothing is written to the job
Raise_propagates(o, jm, err) ==
    /\ jobObj' = jm
    /\ pc' = [pc EXCEPT ![o] = IF o = 0 THEN "idle" ELSE "done"]
    /\ req' = [req EXCEPT ![o] = None]
    /\ lres' = IF o = 0 THEN Ret(CurrentCall, CurrentSize, err) ELSE NoReturn

\* the coroutine of o ends with exception err: process_transcription_job,
\* lines 287-296, sets the job's error; the client's call raises
Raise(o, jm, err) ==
    /\ jobObj' = IF o = 0 THEN jm ELSE [jm EXCEPT ![o] = set_error(@, err)]
    /\ pc' = [pc EXCEPT ![o] = IF o = 0 THEN "idle" ELSE "done"]
    /\ req' = [req EXCEPT ![o] = None]
    /\ lres' = IF o = 0 THEN Ret(CurrentCall, CurrentSize, err) ELSE NoReturn

\* the coroutine of o ends with a response: process_transcription_job,
\* line 286, sets the job's result; the client's call returns it
Return(o, jm, result) ==
    /\ jobObj' = IF o = 0 THEN jm ELSE [jm EXCEPT ![o] = set_result(@, result)]
    /\ pc' = [pc EXCEPT ![o] = IF o = 0 THEN "idle" ELSE "done"]
    /\ req' = [req EXCEPT ![o] = None]
    /\ lres' = IF o = 0 THEN Ret(CurrentCall, CurrentSize, result) ELSE NoReturn

\* transcribe_audio, lines 199-236, run on the event loop without an await:
\* validate_audio_file or preprocess_audio raises (the counter is restored),
\* or the canonical waveform is handed to the executor
Continue(o, jm) ==
    \/ /\ Raise(o, Report(jm, o, <<0>>), "InvalidAudioFormat")
       /\ task' = [task EXCEPT ![o] = NoTask]
       /\ UNCHANGED <<queue, active_transcriptions>>
    \/ /\ Raise(o, Report(jm, o, <<0, MapPreprocess(PreprocessFailPoint)>>), "AudioProcessingError")
       /\ task' = [task EXCEPT ![o] = NoTask]
       /\ UNCHANGED <<queue, active_transcriptions>>
    \/ /\ jobObj' = Report(jm, o, <<0, MapPreprocess(Pct(40))>>)
       /\ active_transcriptions' = active_transcriptions + 1
       /\ run_in_executor(o, "ts", None)
       /\ pc' = [pc EXCEPT ![o] = "await_ts"]
       /\ lres' = NoReturn
       /\ req' = req

\* transcribe_audio from its first line to its first await (lines 192-236)
transcribe_audio(o, jm) ==
    IF ModelNotLoaded
    THEN /\ Raise(o, jm, "ModelNotLoaded")
         /\ UNCHANGED <<svcVars, task, queue>>
    ELSE IF req[o] # None /\ req[o] # model_size
    THEN LET out == LoadModelOutcome(req[o])
         IN  CASE out = "start" ->
                    /\ is_loading' = TRUE
                    /\ run_in_executor(o, "load", req[o])
                    /\ pc' = [pc EXCEPT ![o] = "await_load"]
                    /\ jobObj' = jm
                    /\ lres' = NoReturn
                    /\ UNCHANGED <<model, model_size, active_transcriptions, req>>
               [] out = "busy" ->
                    /\ Raise(o, jm, LoadBusy)
                    /\ UNCHANGED <<svcVars, task, queue>>
               [] OTHER ->
                    /\ Continue(o, jm)
                    /\ UNCHANGED <<model, model_size, is_loading>>
    ELSE /\ Continue(o, jm)
         /\ UNCHANGED <<model, model_size, is_loading>>

\* periodic_cleanup: job_manager.cleanup_old_jobs(). The time that has passed
\* since the jobs were created is an input of the sweep: Spec keeps no clock
Sweep ==
    /\ Serving
    /\ \E utcnow \in now..MaxTime : jobs' = cleanup_old_jobs(jobs, utcnow)
    /\ lres' = NoReturn
    /\ UNCHANGED <<jobObj, svcVars, disk, pipeVars, fnVars, lockVars, now, pc, req, task, queue>>

\* the client calls load_model(size): lines 115-147, up to the await
LoadCall ==
    /\ pc[0] = "idle"
    /\ \E size \in ModelSizes :
         LET out == LoadModelOutcome(size)
         IN  CASE out = "start" ->
                    /\ is_loading' = TRUE
                    /\ run_in_executor(0, "load", size)
                    /\ pc' = [pc EXCEPT ![0] = "load_await"]
                    /\ lres' = NoReturn
                    /\ UNCHANGED <<model, model_size, active_transcriptions>>
               [] out = "busy" ->
                    /\ lres' = Ret("load_model", size, LoadBusy)
                    /\ UNCHANGED <<svcVars, pc, task, queue>>
               [] OTHER ->
                    /\ lres' = Ret("load_model", size, LoadNoop)
                    /\ UNCHANGED <<svcVars, pc, task, queue>>
    /\ UNCHANGED <<jobVars, disk, pipeVars, fnVars, lockVars, now, req>>

\* POST /transcribe, lines 185-208: the checks, up to the await of file.read()
SyncBegin ==
    /\ pc[0] = "idle"
    /\ IF model = None
       THEN /\ lres' = Ret("transcribe_audio", None, "503")
            /\ UNCHANGED <<pc, req>>
       ELSE /\ lres' = NoReturn
            /\ pc' = [pc EXCEPT ![0] = "reading"]
            /\ \E size \in ModelSizes \cup {None} : req' = [req EXCEPT ![0] = size]
    /\ UNCHANGED <<jobVars, svcVars, disk, pipeVars, fnVars, lockVars, now, task, queue>>

\* POST /transcribe, lines 210-224: the upload is written and transcribe_audio
\* runs to its first await
SyncStart ==
    /\ pc[0] = "reading"
    /\ transcribe_audio(0, jobObj)
    /\ UNCHANGED <<jobs, disk, pipeVars, fnVars, lockVars, now>>

\* WhisperService.is_model_loaded, lines 456-458
whisper_service_is_model_loaded == model # None

\* submit_transcription_job, lines 310-332: the checks and create_job, up to
\* the await of file.read()
SubmitBegin ==
    /\ Serving
    /\ Cardinality(DOMAIN jobObj) < MaxJobs
    /\ whisper_service_is_model_loaded
    /\ \E size \in ModelSizes \cup {None} :
         LET j == Cardinality(DOMAIN jobObj) + 1
         IN  /\ jobObj' = jobObj @@ (j :> NewJob(now))
             /\ jobs' = jobs \cup {j}
             /\ pc' = [pc EXCEPT ![j] = "reading"]
             /\ req' = [req EXCEPT ![j] = size]
    /\ lres' = NoReturn
    /\ UNCHANGED <<svcVars, disk, pipeVars, fnVars, lockVars, now, task, queue>>

\* submit_transcription_job, lines 334-362: the upload is written and the
\* background task scheduled, or the handler deletes the job
SubmitFinish(j) ==
    /\ LoopAlive
    /\ pc[j] = "reading"
    /\ \/ /\ pc' = [pc EXCEPT ![j] = "scheduled"]
          /\ UNCHANGED <<jobs, req>>
       \/ /\ pc' = [pc EXCEPT ![j] = "submit_failed"]
          /\ req' = [req EXCEPT ![j] = None]
          /\ jobs' = delete_job(jobs, j)
    /\ lres' = NoReturn
    /\ UNCHANGED <<jobObj, svcVars, disk, pipeVars, fnVars, lockVars, now, task, queue>>

\* process_transcription_job from its start to its first await (main.py
\* lines 267-284)
JobStart(j) ==
    /\ LoopAlive
    /\ pc[j] = "scheduled"
    /\ IF j \notin jobs
       THEN /\ pc' = [pc EXCEPT ![j] = "done"]
            /\ req' = [req EXCEPT ![j] = None]
            /\ lres' = NoReturn
            /\ UNCHANGED <<jobObj, svcVars, task, queue>>
       ELSE transcribe_audio(j, [jobObj EXCEPT ![j] = set_status(@, "PROCESSING")])
    /\ UNCHANGED <<jobs, disk, pipeVars, fnVars, lockVars, now>>

\* an idle worker thread takes the oldest work item
TaskStart(o) ==
    /\ LoopAlive
    /\ queue # <<>>
    /\ o = Head(queue)
    /\ WorkerFree
    /\ queue' = Tail(queue)
    /\ task' = [task EXCEPT ![o].state = "running"]
    /\ lres' = NoReturn
    /\ UNCHANGED <<jobVars, svcVars, disk, pipeVars, fnVars, lockVars, now, pc, req>>

\* _load_model_sync on a worker thread: WhisperModel(...) returns or raises
LoadRun(o) ==
    /\ LoopAlive
    /\ task[o].kind = "load"
    /\ task[o].state = "running"
    /\ \E ok \in BOOLEAN : task' = [task EXCEPT ![o].state = "finished", ![o].ok = ok]
    /\ lres' = NoReturn
    /\ UNCHANGED <<jobVars, svcVars, disk, pipeVars, fnVars, lockVars, now, pc, req, queue>>

\* _transcribe_sync on a worker thread, lines 275-286: the first two
\* callbacks, then the call of self._model.transcribe
TsBegin(o) ==
    /\ LoopAlive
    /\ task[o].kind = "ts"
    /\ task[o].state = "running"
    /\ jobObj' = Report(jobObj, o, <<MapTranscription(0), MapTranscription(Pct(5))>>)
    /\ task' = [task EXCEPT ![o].state = "calling", ![o].used = model]
    /\ lres' = NoReturn
    /\ UNCHANGED <<jobs, svcVars, disk, pipeVars, fnVars, lockVars, now, pc, req, queue>>

\* _transcribe_sync, lines 286-361: the runtime raises, or returns and the
\* remaining callbacks run up to 100
TsRun(o) ==
    /\ LoopAlive
    /\ task[o].kind = "ts"
    /\ task[o].state = "calling"
    /\ \/ /\ task[o].used # None
          /\ jobObj' = Report(jobObj, o, <<MapTranscription(Pct(10)), MapTranscription(Pct(95)), MapTranscription(Pct(100))>>)
          /\ task' = [task EXCEPT ![o].state = "finished", ![o].ok = TRUE]
       \/ /\ task' = [task EXCEPT ![o].state = "finished", ![o].ok = FALSE]
          /\ UNCHANGED jobObj
    /\ lres' = NoReturn
    /\ UNCHANGED <<jobs, svcVars, disk, pipeVars, fnVars, lockVars, now, pc, req, queue>>

\* transcribe_audio resumes after run_in_executor (lines 238-263), then its
\* caller (main.py lines 286-296, or the endpoint's return)
TsResume(o) ==
    /\ LoopAlive
    /\ pc[o] = "await_ts"
    /\ task[o].state = "finished"
    /\ active_transcriptions' = active_transcriptions - 1
    /\ IF task[o].ok /\ model_size # None
       THEN Return(o, jobObj, model_size)
       ELSE Raise(o, jobObj, "TranscriptionFailed")
    /\ task' = [task EXCEPT ![o] = NoTask]
    /\ UNCHANGED <<jobs, model, model_size, is_loading, disk, pipeVars, fnVars, lockVars, now, queue>>

\* the flag is cleared only when the load succeeded
FlagAfterLoad_successOnly(ok) == ~ok

\* load_model, lines 168-169: the finally clears the flag however the load
\* ended
FlagAfterLoad(ok) == FALSE

\* load_model resumes after run_in_executor (lines 143-169); inside
\* transcribe_audio the call goes on at line 199
LoadResume(o) ==
    /\ LoopAlive
    /\ pc[o] \in {"await_load", "load_await"}
    /\ task[o].state = "finished"
    /\ is_loading' = FlagAfterLoad(task[o].ok)
    /\ IF task[o].ok
       THEN /\ model' = task[o].size
            /\ model_size' = task[o].size
            /\ IF pc[o] = "load_await"
               THEN /\ lres' = Ret("load_model", task[o].size, Loaded)
                    /\ pc' = [pc EXCEPT ![o] = "idle"]
                    /\ task' = [task EXCEPT ![o] = NoTask]
                    /\ UNCHANGED <<jobObj, req, queue, active_transcriptions>>
               ELSE Continue(o, jobObj)
       ELSE /\ Raise(o, jobObj, LoadFailed)
            /\ task' = [task EXCEPT ![o] = NoTask]
            /\ UNCHANGED <<model, model_size, queue, active_transcriptions>>
    /\ UNCHANGED <<jobs, disk, pipeVars, fnVars, lockVars, now>>

\* _transcribe_sync: the call of self._model.transcribe never returns; the
\* work item keeps its worker thread and the coroutine keeps waiting
TsHang(o) ==
    /\ LoopAlive
    /\ task[o].kind = "ts"
    /\ task[o].state = "calling"
    /\ task' = [task EXCEPT ![o].state = "hung"]
    /\ lres' = NoReturn
    /\ UNCHANGED <<jobVars, svcVars, disk, pipeVars, fnVars, lockVars, now, pc, req, queue>>

\* lifespan's shutdown (main.py lines 80-88): the periodic sweep is cancelled
\* and whisper_service.cleanup() is awaited; cleanup enters its wait loop
CleanupCall ==
    /\ pc[0] = "idle"
    /\ pc' = [pc EXCEPT ![0] = "draining"]
    /\ lres' = NoReturn
    /\ UNCHANGED <<jobVars, svcVars, disk, pipeVars, fnVars, lockVars, now, req, task, queue>>

\* the wait of cleanup is given up after some polls
DrainOver_bounded == TRUE

\* cleanup, lines 468-469: `while self._active_transcriptions > 0` is left
DrainOver == active_transcriptions = 0

\* cleanup, lines 468-478: a poll finds the wait over; the executor is shut
\* down and the model released.  A poll that finds the counter positive
\* sleeps for a second and changes nothing
CleanupRelease ==
    /\ pc[0] = "draining"
    /\ DrainOver
    /\ model' = None
    /\ model_size' = None
    /\ pc' = [pc EXCEPT ![0] = "stopped"]
    /\ lres' = Ret("cleanup", None, "released")
    /\ UNCHANGED <<jobVars, is_loading, active_transcriptions, disk, pipeVars, fnVars, lockVars, now, req, task, queue>>

\* the state after construction: no model, no job
Init ==
    /\ jobObj = <<>>
    /\ jobs = {}
    /\ model = None
    /\ model_size = None
    /\ is_loading = FALSE
    /\ active_transcriptions = 0
    /\ disk = {}
    /\ now = 0
    /\ pc = [o \in Owners |-> IF o = 0 THEN "idle" ELSE "unborn"]
    /\ req = [o \in Owners |-> None]
    /\ task = [o \in Owners |-> NoTask]
    /\ queue = <<>>
    /\ lres = NoReturn
    /\ fsig = "nomatch"
    /\ fcall = NoCall
    /\ fprev = NoTag
    /\ probed = NoProbe
    /\ ppc = "off"
    /\ pin = [ext |-> "", exists |-> FALSE, size |-> "ok"]
    /\ pdetected = None
    /\ file_path = Upload
    /\ converted_file = None
    /\ processed_file = None
    /\ pre_outcome = None
    /\ perr = NoError
    /\ written = <<>>
    /\ stages = <<>>
    /\ nConv = 0
    /\ nLoad = 0
    /\ nLoadFail = 0
    /\ LockIdle

Next ==
    \/ Sweep
    \/ LoadCall
    \/ SyncBegin
    \/ SyncStart
    \/ SubmitBegin
    \/ \E j \in JobIds : SubmitFinish(j)
    \/ \E j \in JobIds : JobStart(j)
    \/ \E o \in Owners : TaskStart(o)
    \/ \E o \in Owners : LoadRun(o)
    \/ \E o \in Owners : TsBegin(o)
    \/ \E o \in Owners : TsRun(o)
    \/ \E o \in Owners : TsResume(o)
    \/ \E o \in Owners : LoadResume(o)
    \/ \E o \in Owners : TsHang(o)
    \/ CleanupCall
    \/ CleanupRelease

Spec == Init /\ [][Next]_vars

\* the event loop runs every coroutine that is ready and the worker threads
\* run every work item they hold; each external call returns or raises
Fairness ==
    /\ \A j \in JobIds : WF_vars(SubmitFinish(j)) /\ WF_vars(JobStart(j))
    /\ \A o \in Owners : WF_vars(TaskStart(o)) /\ WF_vars(LoadRun(o)) /\ WF_vars(TsBegin(o)) /\ WF_vars(TsRun(o))
    /\ \A o \in Owners : WF_vars(TsResume(o)) /\ WF_vars(LoadResume(o))
    /\ WF_vars(SyncStart)
    /\ WF_vars(CleanupRelease)

FairSpec == Spec /\ Fairness

(********************* the job registry and its clock **********************)
\* the jobs the registry is followed for
RegIds == {1, 2}

\* the clock stops once every job that can be created is past its retention
ClockEnd == MaxTime + JobCleanupMaxAge + 1

\* the periodic task ends on the first error of a sweep
SweepErrorHandled_dies(p) == [p EXCEPT ![0] = "stopped"]

\* periodic_cleanup, main.py lines 73-74: `except Exception` logs the error
\* and the loop goes on
SweepErrorHandled(p) == p

\* get_job_progress, main.py lines 365-373: 404 for a job the registry does
\* not hold, else the response built from to_dict (its status stands for it)
get_job_progress(j) == IF j \notin jobs THEN "404" ELSE jobObj[j].status

\* a second passes
RegTick ==
    /\ now < ClockEnd
    /\ now' = now + 1
    /\ lres' = NoReturn
    /\ UNCHANGED <<jobVars, svcVars, disk, pipeVars, fnVars, lockVars, pc, req, task, queue>>

\* the scratch file that submit_transcription_job makes for job j (mkstemp)
UploadOf(j) == "upload_" \o ToString(j)

\* the coroutine of job j moves to position p
At(j, p) == (j :> p) @@ pc

\* the position of the coroutine of job j
Pos(j) == IF j \in DOMAIN pc THEN pc[j] ELSE "unborn"

\* submit_transcription_job up to its await (lines 308-332):
\* JobManager.create_job (lines 89-95), then file.read() is awaited
RegCreate ==
    /\ Serving
    /\ whisper_service_is_model_loaded
    /\ now <= MaxTime
    /\ Cardinality(DOMAIN jobObj) < Cardinality(RegIds)
    /\ LET j == Cardinality(DOMAIN jobObj) + 1
       IN  /\ jobObj' = jobObj @@ (j :> NewJob(now))
           /\ jobs' = jobs \cup {j}
           /\ pc' = At(j, "reading")
    /\ lres' = NoReturn
    /\ UNCHANGED <<svcVars, disk, pipeVars, fnVars, lockVars, now, req, task, queue>>

\* submit_transcription_job, lines 310-325: the request is rejected before a
\* job is created: 503 without a model, else 400 without a file, 413 for a
\* file over the size limit
RegReject ==
    /\ Serving
    /\ \E code \in {"503", "400", "413"} :
         /\ code = "503" <=> ~whisper_service_is_model_loaded
         /\ lres' = Ret("submit_transcription_job", None, code)
    /\ UNCHANGED <<jobVars, svcVars, disk, pipeVars, fnVars, lockVars, now, pc, req, task, queue>>

\* submit_transcription_job, lines 332-362: the upload is written to a
\* scratch file and the background task is scheduled; or file.read() or
\* mkstemp raises and the handler deletes the job; or os.write raises after
\* mkstemp made the file and the handler deletes the job
RegSubmit(j) ==
    /\ Pos(j) = "reading"
    /\ \/ /\ disk' = disk \cup {UploadOf(j)}
          /\ pc' = At(j, "scheduled")
          /\ jobs' = jobs
       \/ /\ disk' = disk
          /\ pc' = At(j, "submit_failed")
          /\ jobs' = delete_job(jobs, j)
       \/ /\ disk' = disk \cup {UploadOf(j)}
          /\ pc' = At(j, "submit_failed")
          /\ jobs' = delete_job(jobs, j)
    /\ lres' = NoReturn
    /\ UNCHANGED <<jobObj, svcVars, pipeVars, fnVars, lockVars, now, req, task, queue>>

\* process_transcription_job (lines 260-296): it returns at once when the
\* registry no longer has the job; else set_status, then, whether the
\* registry still has the job or not, set_result or set_error on the Job
\* object it holds, and the finally block unlinks the upload
RegWork(j) ==
    /\ \/ /\ Pos(j) = "scheduled"
          /\ j \notin jobs
          /\ pc' = At(j, "done")
          /\ UNCHANGED <<jobObj, disk>>
       \/ /\ Pos(j) = "scheduled"
          /\ j \in jobs
          /\ jobObj' = [jobObj EXCEPT ![j] = set_status(@, "PROCESSING")]
          /\ pc' = At(j, "await_ts")
          /\ disk' = disk
       \/ /\ Pos(j) = "await_ts"
          /\ \/ jobObj' = [jobObj EXCEPT ![j] = set_result(@, DefaultModelSize)]
             \/ jobObj' = [jobObj EXCEPT ![j] = set_error(@, "TranscriptionFailed")]
          /\ disk' = disk \ {UploadOf(j)}
          /\ pc' = At(j, "done")
    /\ lres' = NoReturn
    /\ UNCHANGED <<jobs, svcVars, pipeVars, fnVars, lockVars, now, req, task, queue>>

\* periodic_cleanup wakes up and job_manager.cleanup_old_jobs() runs
RegSweep ==
    /\ Serving
    /\ jobs' = cleanup_old_jobs(jobs, now)
    /\ lres' = Ret("cleanup_old_jobs", None, "swept")
    /\ UNCHANGED <<jobObj, svcVars, disk, pipeVars, fnVars, lockVars, now, pc, req, task, queue>>

\* periodic_cleanup wakes up and the sweep raises
RegSweepFails ==
    /\ Serving
    /\ pc' = SweepErrorHandled(pc)
    /\ lres' = Ret("cleanup_old_jobs", None, "raised")
    /\ UNCHANGED <<jobVars, svcVars, disk, pipeVars, fnVars, lockVars, now, req, task, queue>>

\* GET /jobs/{job_id}/progress
RegQuery(j) ==
    /\ lres' = Ret("get_job_progress", ToString(j), get_job_progress(j))
    /\ UNCHANGED <<jobVars, svcVars, disk, pipeVars, fnVars, lockVars, now, pc, req, task, queue>>

NextReg ==
    \/ RegTick
    \/ RegCreate
    \/ RegReject
    \/ \E j \in RegIds : RegSubmit(j)
    \/ \E j \in RegIds : RegWork(j)
    \/ RegSweep
    \/ RegSweepFails
    \/ \E j \in RegIds : RegQuery(j)

\* the registry is empty; the service has a model (lifespan loaded it) or has
\* none
InitReg ==
    /\ jobObj = <<>>
    /\ jobs = {}
    /\ model \in {None, DefaultModelSize}
    /\ model_size = model
    /\ is_loading = FALSE
    /\ active_transcriptions = 0
    /\ disk = {}
    /\ now = 0
    /\ pc = [o \in Owners |-> IF o = 0 THEN "idle" ELSE "unborn"]
    /\ req = [o \in Owners |-> None]
    /\ task = [o \in Owners |-> NoTask]
    /\ queue = <<>>
    /\ lres = NoReturn
    /\ fsig = "nomatch"
    /\ fcall = NoCall
    /\ fprev = NoTag
    /\ probed = NoProbe
    /\ ppc = "off"
    /\ pin = [ext |-> "", exists |-> FALSE, size |-> "ok"]
    /\ pdetected = None
    /\ file_path = Upload
    /\ converted_file = None
    /\ processed_file = None
    /\ pre_outcome = None
    /\ perr = NoError
    /\ written = <<>>
    /\ stages = <<>>
    /\ nConv = 0
    /\ nLoad = 0
    /\ nLoadFail = 0
    /\ LockIdle

SpecReg == InitReg /\ [][NextReg]_vars

\* time passes, and the periodic task gets to run sweeps that do not raise
FairnessReg == WF_vars(RegTick) /\ WF_vars(RegSweep)

FairSpecReg == SpecReg /\ FairnessReg

(****************** one Job object shared by two threads *******************)
\* The Job methods, one attribute at a time.  The worker thread runs the
\* calls of process_transcription_job and of its progress callback on one
\* job; the client thread runs to_dict for a status request on the same job.
LJob == 1

\* the attributes to_dict puts in the dict (message and the two dates are
\* written and read inside the same `with` blocks and are left out)
Fields(job) == [status |-> job.status, progress |-> job.progress, result |-> job.result, error |-> job.error]

\* the attributes each method assigns, in the order of its statements
FieldsWritten(fn) ==
    CASE fn = "update_progress" -> <<"progress">>
      [] fn = "set_status"      -> <<"status">>
      [] fn = "set_result"      -> <<"result", "status", "progress">>
      [] fn = "set_error"       -> <<"error", "status">>

\* the attributes to_dict reads, in the order of the dict display
FieldsRead == <<"status", "progress", "result", "error">>

Returned == Len(FieldsRead) + 2

\* the values the progress callback is called with
CallbackValues == {Pct(5), Pct(50), Pct(150)}

\* the calls process_transcription_job makes on its job, by where the job is
WorkerCalls(job) ==
    CASE job.status = "PENDING" ->
            {[fn |-> "set_status", target |-> Fields(set_status(job, "PROCESSING"))]}
      [] job.status = "PROCESSING" ->
            {[fn |-> "update_progress", target |-> Fields(update_progress(job, p))] : p \in CallbackValues}
            \cup {[fn |-> "set_result", target |-> Fields(set_result(job, DefaultModelSize))],
                  [fn |-> "set_error", target |-> Fields(set_error(job, "Transcription failed"))]}
      [] OTHER -> {}

\* the event-loop thread is in no JobManager method
NoManagerCall == [fn |-> None, at |-> 0]

\* `with self._lock:` blocks until no thread holds the lock
Acquirable_unlocked(holder) == TRUE

Acquirable(holder) == holder = None

InSection(at, n) == at \in 1..(n + 1)

Reading == InSection(rcall.at, Len(FieldsRead))

\* the worker calls a method and reaches its `with self._lock`
WCall ==
    /\ wcall.fn = None
    /\ \E c \in WorkerCalls(jobObj[LJob]) : wcall' = [fn |-> c.fn, target |-> c.target, at |-> 0]
    /\ UNCHANGED <<jobVars, svcVars, disk, pipeVars, conVars, fnVars, job_lock, rcall, jwhole, seen, reg_lock, mcall>>

WAcquire ==
    /\ wcall.fn # None /\ wcall.at = 0
    /\ Acquirable(job_lock)
    /\ job_lock' = "worker"
    /\ wcall' = [wcall EXCEPT !.at = 1]
    /\ UNCHANGED <<jobVars, svcVars, disk, pipeVars, conVars, fnVars, rcall, jwhole, seen, reg_lock, mcall>>

\* one assignment of the method's body
WWrite ==
    /\ wcall.fn # None /\ wcall.at \in 1..Len(FieldsWritten(wcall.fn))
    /\ LET f == FieldsWritten(wcall.fn)[wcall.at]
       IN  jobObj' = [jobObj EXCEPT ![LJob][f] = wcall.target[f]]
    /\ wcall' = [wcall EXCEPT !.at = @ + 1]
    /\ UNCHANGED <<jobs, svcVars, disk, pipeVars, conVars, fnVars, job_lock, rcall, jwhole, seen, reg_lock, mcall>>

\* the end of the `with` block: the method returns
WRelease ==
    /\ wcall.fn # None /\ wcall.at = Len(FieldsWritten(wcall.fn)) + 1
    /\ job_lock' = None
    /\ wcall' = NoMethod
    /\ jwhole' = Fields(jobObj[LJob])
    /\ seen' = IF Reading THEN seen \cup {Fields(jobObj[LJob])} ELSE seen
    /\ UNCHANGED <<jobVars, svcVars, disk, pipeVars, conVars, fnVars, rcall, reg_lock, mcall>>

\* the client calls to_dict and takes the lock
RAcquire ==
    /\ rcall.at \in {0, Returned}
    /\ mcall.fn = None
    /\ Acquirable(job_lock)
    /\ job_lock' = "client"
    /\ rcall' = [at |-> 1, snap |-> Blank]
    /\ seen' = {jwhole}
    /\ UNCHANGED <<jobVars, svcVars, disk, pipeVars, conVars, fnVars, wcall, jwhole, reg_lock, mcall>>

\* one entry of the dict display
RRead ==
    /\ rcall.at \in 1..Len(FieldsRead)
    /\ LET f == FieldsRead[rcall.at]
       IN  rcall' = [at |-> rcall.at + 1, snap |-> [rcall.snap EXCEPT ![f] = jobObj[LJob][f]]]
    /\ UNCHANGED <<jobVars, svcVars, disk, pipeVars, conVars, fnVars, job_lock, wcall, jwhole, seen, reg_lock, mcall>>

\* the end of the `with` block: to_dict returns the dict
RRelease ==
    /\ rcall.at = Len(FieldsRead) + 1
    /\ job_lock' = None
    /\ rcall' = [rcall EXCEPT !.at = Returned]
    /\ UNCHANGED <<jobVars, svcVars, disk, pipeVars, conVars, fnVars, wcall, jwhole, seen, reg_lock, mcall>>

\* the JobManager methods; all of them are called on the event-loop thread
\* (request handlers and periodic_cleanup)
ManagerMethods == {"create_job", "get_job", "delete_job", "cleanup_old_jobs"}

\* the Job._lock after a JobManager method took it inside its own `with`
JobLockInside_nested(holder) == "client"

\* JobManager, lines 93-121: the bodies of the `with self._lock` blocks touch
\* the dict and read job.created_at; they call no Job method and take no
\* Job._lock
JobLockInside(holder) == holder

\* the event-loop thread calls a JobManager method and reaches its
\* `with self._lock` (create_job has built the Job by then, lines 91-92)
MCall ==
    /\ mcall.fn = None
    /\ rcall.at \in {0, Returned}
    /\ \E fn \in ManagerMethods :
         /\ fn = "create_job" => Cardinality(DOMAIN jobObj) < Cardinality(RegIds)
         /\ mcall' = [fn |-> fn, at |-> 0]
    /\ UNCHANGED <<jobVars, svcVars, disk, pipeVars, conVars, fnVars, job_lock, wcall, rcall, jwhole, seen, reg_lock>>

MAcquire ==
    /\ mcall.fn # None /\ mcall.at = 0
    /\ Acquirable(reg_lock)
    /\ reg_lock' = "client"
    /\ mcall' = [mcall EXCEPT !.at = 1]
    /\ UNCHANGED <<jobVars, svcVars, disk, pipeVars, conVars, fnVars, job_lock, wcall, rcall, jwhole, seen>>

\* the body of the `with` block
MBody ==
    /\ mcall.fn # None /\ mcall.at = 1
    /\ CASE mcall.fn = "create_job" ->
              LET j == Cardinality(DOMAIN jobObj) + 1
              IN  jobObj' = jobObj @@ (j :> NewJob(now)) /\ jobs' = jobs \cup {j}
         [] mcall.fn = "get_job" ->
              UNCHANGED jobVars
         [] mcall.fn = "delete_job" ->
              \E j \in DOMAIN jobObj : jobs' = jobs \ {j} /\ jobObj' = jobObj
         [] mcall.fn = "cleanup_old_jobs" ->
              \E utcnow \in {now, now + JobCleanupMaxAge + 1} :
                  jobs' = cleanup_old_jobs(jobs, utcnow) /\ jobObj' = jobObj
    /\ job_lock' = JobLockInside(job_lock)
    /\ mcall' = [mcall EXCEPT !.at = 2]
    /\ UNCHANGED <<svcVars, disk, pipeVars, conVars, fnVars, wcall, rcall, jwhole, seen, reg_lock>>

\* the end of the `with` block: the method returns
MRelease ==
    /\ mcall.fn # None /\ mcall.at = 2
    /\ reg_lock' = None
    /\ mcall' = NoManagerCall
    /\ UNCHANGED <<jobVars, svcVars, disk, pipeVars, conVars, fnVars, job_lock, wcall, rcall, jwhole, seen>>

InitLock ==
    /\ jobObj = [j \in {LJob} |-> NewJob(0)]
    /\ jobs = {LJob}
    /\ model = DefaultModelSize
    /\ model_size = DefaultModelSize
    /\ is_loading = FALSE
    /\ active_transcriptions = 0
    /\ disk = {}
    /\ now = 0
    /\ pc = [o \in Owners |-> "off"]
    /\ req = [o \in Owners |-> None]
    /\ task = [o \in Owners |-> NoTask]
    /\ queue = <<>>
    /\ lres = NoReturn
    /\ fsig = "nomatch"
    /\ fcall = NoCall
    /\ fprev = NoTag
    /\ probed = NoProbe
    /\ ppc = "off"
    /\ pin = [ext |-> "", exists |-> FALSE, size |-> "ok"]
    /\ pdetected = None
    /\ file_path = Upload
    /\ converted_file = None
    /\ processed_file = None
    /\ pre_outcome = None
    /\ perr = NoError
    /\ written = <<>>
    /\ stages = <<>>
    /\ nConv = 0
    /\ nLoad = 0
    /\ nLoadFail = 0
    /\ job_lock = None
    /\ wcall = NoMethod
    /\ rcall = [at |-> 0, snap |-> Blank]
    /\ jwhole = Fields(NewJob(0))
    /\ seen = {}
    /\ reg_lock = None
    /\ mcall = NoManagerCall

NextLock ==
    \/ WCall
    \/ WAcquire
    \/ WWrite
    \/ WRelease
    \/ RAcquire
    \/ RRead
    \/ RRelease
    \/ MCall
    \/ MAcquire
    \/ MBody
    \/ MRelease

SpecLock == InitLock /\ [][NextLock]_vars

(******************** the file functions on their own **********************)
\* the outcomes one ffprobe invocation (lines 56-70) can have on a file with
\* these first bytes: it can fail on any file (tool absent, timeout, nonzero
\* exit, unparsable output), and when it succeeds the format it reports is
\* the one of the bytes
ProbeFailures == {"absent", "timeout", "nonzero", "badjson"}

ProbeFor(sig) ==
    ProbeFailures \cup
        (CASE sig = "ftyp" -> {"mp4", "mp4aac", "3gp"}
           [] sig = "EBML" -> {"matroska"}
           [] sig = "AVI" -> {"avi"}
           [] sig = "FLV" -> {"flv"}
           [] sig = "ASF" -> {"wmv", "other"}
           [] sig = "unreadable" -> {}
           [] OTHER -> {"other"})

\* detect_audio_format(file_path) is called on the file
CallSniff ==
    /\ \E probe \in ProbeFor(fsig) :
         LET r == Sniff(pin, probe, fsig)
         IN  fcall' = [fn |-> "detect_audio_format", tools |-> <<probe>>, tag |-> r.tag, error |-> r.raised, valid |-> FALSE, detail |-> None, trace |-> r.trace, step |-> None]
    /\ fprev' = IF fcall.fn = "detect_audio_format" THEN [tag |-> fcall.tag, probe |-> fcall.tools[1]] ELSE NoTag
    /\ UNCHANGED <<jobVars, svcVars, disk, pipeVars, conVars, lockVars, fsig, probed>>

\* validate_audio_file(file_path) is called on the file
CallValidate ==
    /\ \E probe \in ProbeFor(fsig) :
         LET v == validate_audio_file(pin, probe, fsig)
         IN  fcall' = [fn |-> "validate_audio_file", tools |-> <<probe>>, tag |-> v.format, error |-> v.error, valid |-> v.error = None, detail |-> None, trace |-> ValidateTrace(pin, probe, fsig), step |-> None]
    /\ fprev' = NoTag
    /\ UNCHANGED <<jobVars, svcVars, disk, pipeVars, conVars, lockVars, fsig, probed>>

\* validate_audio_file_integrity(file_path) is called on the file
CallIntegrity ==
    /\ \E p1 \in ToolResults, p2 \in ToolResults, dur \in BOOLEAN :
         LET r == validate_audio_file_integrity(p1, p2, dur)
         IN  fcall' = [fn |-> "validate_audio_file_integrity", tools |-> IntegrityOutcomes(p1, p2, dur), tag |-> None, error |-> None, valid |-> r.valid, detail |-> r.detail, trace |-> IntegrityTrace(p1, p2), step |-> None]
    /\ fprev' = NoTag
    /\ UNCHANGED <<jobVars, svcVars, disk, pipeVars, conVars, lockVars, fsig, probed>>

\* convert_audio_file(input_path) or convert_video_to_audio(input_path) is
\* called on the file.  tools: what happened to the ffmpeg run; tag: whether
\* an output file is left behind; valid: an output path was returned;
\* detail: original_error of the exception raised; trace: the ffmpeg runs
CallTranscode ==
    /\ \E fn \in {"convert_audio_file", "convert_video_to_audio"}, outcome \in TranscoderOutcomes, leftover \in BOOLEAN :
         LET t == IF fn = "convert_audio_file" THEN convert_audio_file(outcome, leftover) ELSE convert_video_to_audio(outcome, leftover)
         IN  fcall' = [fn |-> fn, tools |-> <<outcome>>, tag |-> IF t.output THEN "output" ELSE None, error |-> IF t.ok THEN None ELSE "AudioProcessingError", valid |-> t.ok, detail |-> t.diagnostic, trace |-> IF t.invoked THEN <<"ffmpeg">> ELSE <<>>, step |-> IF t.ok THEN None ELSE t.step]
    /\ fprev' = NoTag
    /\ UNCHANGED <<jobVars, svcVars, disk, pipeVars, conVars, lockVars, fsig, probed>>

\* any file, with any first bytes (a missing or empty file has none); no
\* function called yet
InitFn ==
    /\ jobObj = <<>>
    /\ jobs = {}
    /\ model = None
    /\ model_size = None
    /\ is_loading = FALSE
    /\ active_transcriptions = 0
    /\ pin \in Uploads
    /\ fsig \in IF pin.exists /\ pin.size # "zero" THEN Signatures ELSE {"nomatch"}
    /\ disk = IF pin.exists THEN {Upload} ELSE {}
    /\ now = 0
    /\ pc = [o \in Owners |-> "off"]
    /\ req = [o \in Owners |-> None]
    /\ task = [o \in Owners |-> NoTask]
    /\ queue = <<>>
    /\ lres = NoReturn
    /\ fcall = NoCall
    /\ fprev = NoTag
    /\ probed = NoProbe
    /\ ppc = "off"
    /\ pdetected = None
    /\ file_path = Upload
    /\ converted_file = None
    /\ processed_file = None
    /\ pre_outcome = None
    /\ perr = NoError
    /\ written = <<>>
    /\ stages = <<>>
    /\ nConv = 0
    /\ nLoad = 0
    /\ nLoadFail = 0
    /\ LockIdle

NextFn ==
    \/ CallSniff
    \/ CallValidate
    \/ CallIntegrity
    \/ CallTranscode

SpecFn == InitFn /\ [][NextFn]_vars

(********************* properties of one pipeline run **********************)
Converting == {"CONVERTING_extract", "CONVERTING_convert", "CONVERTING_rescue"}
NonDecreasing(seq) == \A i \in 1..(Len(seq) - 1) : seq[i] <= seq[i + 1]
\* preprocess_audio has passed its branch on the format (line 483)
PastBranch == ppc \notin {"start", "validate", "preprocess"} /\ (pre_outcome # None \/ ppc \notin {"raise", "job_except", "done"})

\* C1: the progress percentages written to a job are non-decreasing on every
\* pipeline path, and a finished job is COMPLETED at 100.0 or FAILED with a
\* non-null error
C1_ProgressMonotone ==
    /\ NonDecreasing(written)
    /\ ppc = "done" =>
         \/ jobObj[PJob].status = "COMPLETED" /\ Last(written) = Pct(100) /\ jobObj[PJob].progress = Pct(100)
         \/ jobObj[PJob].status = "FAILED" /\ jobObj[PJob].error # None

\* C2: once preprocess_audio has returned or raised, no converted scratch
\* file of the run is left on disk
C2_NoConvertedFileLeft == pre_outcome # None => disk \cap ConvertedFiles = {}

\* C3: a detected tag in the requires-conversion set goes to the extract
\* conversion with no VALIDATING before it; for a detected tag in the
\* is-audio set VALIDATING precedes every CONVERTING
C3_StageOrder ==
    /\ (PastBranch /\ pdetected \in FormatsRequiringConversion) =>
         (stages # <<>> /\ stages[1] = "CONVERTING_extract")
    /\ pdetected \in AudioExtensions =>
         \A i \in 1..Len(stages) : stages[i] \in Converting => \E k \in 1..(i - 1) : stages[k] = "VALIDATING"

\* C4: the transcoder runs at most once in a run, the waveform load at most
\* twice, and a run whose load failed twice raises
C4_RetryBound ==
    /\ nConv <= 1
    /\ Cardinality({i \in 1..Len(stages) : stages[i] \in Converting}) <= 1
    /\ nLoad <= 2
    /\ nLoadFail >= 2 => (ppc \in {"except", "raise", "job_except", "done"} /\ pre_outcome \in {None, "raised"} /\ processed_file = None)
    /\ (nLoadFail >= 2 /\ ppc \in {"raise", "job_except", "done"}) => pre_outcome = "raised"

\* C4 witness: initial load and the load after the rescue conversion both
\* failed, and preprocess_audio raised
C4_Witness == nLoadFail = 2 /\ nConv = 1 /\ pre_outcome = "raised" /\ stages = <<"VALIDATING", "CONVERTING_rescue">>

\* C10: transcribe_audio called with no model loaded raises ModelNotLoaded
\* at once: the counter stays as it was, no progress is written, nothing is
\* validated, probed, converted or loaded and no waveform is produced
C10_NotLoadedFailsFirst ==
    (model = None /\ ppc # "start") =>
        /\ perr.type = "ModelNotLoaded"
        /\ ppc \in {"job_except", "done"}
        /\ active_transcriptions = 0
        /\ written = <<>>
        /\ jobObj[PJob].progress = 0
        /\ pdetected = None /\ stages = <<>> /\ nConv = 0 /\ nLoad = 0
        /\ processed_file = None /\ pre_outcome = None
        /\ ppc = "done" => (jobObj[PJob].status = "FAILED" /\ jobObj[PJob].error = "ModelNotLoaded")

\* C10 witness: the call was made without a model and the job has failed
C10_Witness == model = None /\ ppc = "done" /\ jobObj[PJob].error = "ModelNotLoaded"


(********************* properties of the running service ********************)
\* C5: in every reachable state of the asynchronous flow a job has a result
\* if and only if its status is COMPLETED
C5_ResultIffCompleted ==
    \A j \in DOMAIN jobObj : (jobObj[j].result # None) <=> (jobObj[j].status = "COMPLETED")

\* a job has completed and carries its result
C5_Witness ==
    \E j \in DOMAIN jobObj : jobObj[j].status = "COMPLETED" /\ jobObj[j].result \in ModelSizes /\ pc[j] = "done"

\* C6: in every reachable state of the asynchronous flow a job has an error
\* if and only if its status is FAILED
C6_ErrorIffFailed ==
    \A j \in DOMAIN jobObj : (jobObj[j].error # None) <=> (jobObj[j].status = "FAILED")

\* a job has failed in the model runtime and carries its error
C6_Witness ==
    \E j \in DOMAIN jobObj : jobObj[j].status = "FAILED" /\ jobObj[j].error = "TranscriptionFailed" /\ pc[j] = "done"

\* the transcription requests that are past their checks and not yet answered
InFlight == {o \in Owners : pc[o] = "await_ts"}

\* the calls of the model runtime that are executing
Transcribing == {o \in Owners : task[o].kind = "ts" /\ task[o].state \in {"running", "calling", "hung"}}

\* the owners of the items waiting in the executor's queue
Waiting == {queue[i] : i \in 1..Len(queue)}

\* C7: at most max_concurrent_transcriptions model-runtime calls execute at
\* the same time; every request in flight keeps its work item, which waits in
\* the queue until a worker takes it and is never dropped or rejected; a
\* waiting item leaves the queue only by being started
C7_ConcurrencyBound ==
    /\ [](/\ Cardinality(Transcribing) <= MaxConcurrentTranscriptions
          /\ Cardinality(Running) <= MaxConcurrentTranscriptions
          /\ \A o \in InFlight : task[o].kind = "ts" /\ task[o].state \in {"queued", "running", "calling", "hung", "finished"}
          /\ \A o \in Owners : task[o].state = "queued" <=> o \in Waiting
          /\ active_transcriptions = Cardinality(InFlight))
    /\ [][\A o \in Owners : task[o].state = "queued" => task'[o].state \in {"queued", "running"} /\ task'[o].kind = task[o].kind]_vars

\* two transcription requests were in flight with one worker: the job's
\* request waited for the worker and its model-runtime call has now returned,
\* after the client's request was answered
C7_Witness ==
    \E j \in JobIds :
        /\ pc[j] = "await_ts"
        /\ task[j].waited
        /\ task[j].state = "finished"
        /\ task[j].ok
        /\ lres.call = "transcribe_audio"
        /\ lres.value \in ModelSizes

\* the load_model calls that are executing a model load
Loading == {o \in Owners : task[o].kind = "load"}

\* C8: at most one load_model call executes a model load at any time; the
\* loading flag is set exactly while it does; a load_model request that
\* arrives while a load is in progress starts no load and queues nothing: the
\* client's call raises ModelLoadFailed at once, a job's call fails the job
C8_LoadExclusive ==
    /\ [](/\ Cardinality(Loading) <= 1
          /\ is_loading <=> Loading # {}
          /\ \A o \in Owners : pc[o] \in {"await_load", "load_await"} <=> o \in Loading)
    /\ [][is_loading =>
            /\ \A o \in Owners : o \notin Loading => (task'[o].kind # "load" /\ pc'[o] \notin {"await_load", "load_await"})
            /\ Len(queue') <= Len(queue) \/ \E o \in Owners : task'[o].kind = "ts" /\ task[o].kind # "ts"
            /\ (pc[0] = "idle" /\ lres'.call = "load_model") => lres'.value = LoadBusy
            /\ \A j \in JobIds : (pc[j] = "scheduled" /\ j \in jobs /\ req[j] # None /\ req[j] # model_size) =>
                   (pc'[j] = "scheduled" \/ (pc'[j] = "done" /\ jobObj'[j].error = LoadBusy))]_vars

\* while the client's load is executing, a job that asked for another model
\* has failed with ModelLoadFailed
C8_Witness ==
    /\ is_loading
    /\ pc[0] = "load_await"
    /\ \E j \in DOMAIN jobObj : jobObj[j].error = LoadBusy /\ jobObj[j].status = "FAILED"

\* the step is a call load_model(size) by the client
LoadModelCalled(size) ==
    /\ pc[0] = "idle"
    /\ \/ lres'.call = "load_model" /\ lres'.size = size
       \/ pc'[0] = "load_await" /\ task'[0].size = size

\* the call returned at once and changed nothing of the service
ReturnedNoop ==
    /\ lres'.value = LoadNoop
    /\ UNCHANGED <<model, model_size, is_loading, active_transcriptions, task, queue, jobObj, jobs>>

\* C9 as stated: load_model for the size that is loaded is a no-op that
\* returns at once, in every state in which that model is loaded
C9_ReloadIsNoop ==
    [][\A size \in ModelSizes : (model = size /\ model_size = size /\ LoadModelCalled(size)) => ReturnedNoop]_vars

\* C9 amended: load_model for the size that is loaded is a no-op that returns
\* at once, in every state in which that model is loaded and no model load
\* is in progress, whatever transcription requests are in flight
C9_ReloadIsNoopUnlessLoading ==
    [][\A size \in ModelSizes : (model = size /\ model_size = size /\ ~is_loading /\ LoadModelCalled(size)) => ReturnedNoop]_vars

\* the client's load_model for the loaded size has just returned "already
\* loaded" while a job's transcription is in flight
C9_Witness ==
    /\ lres.call = "load_model"
    /\ lres.value = LoadNoop
    /\ lres.size = model_size
    /\ model = model_size
    /\ \E j \in JobIds : pc[j] = "await_ts" /\ task[j].state \in {"running", "calling"}


\* the exceptions that end transcribe_audio inside a job
JobErrors == {"ModelNotLoaded", LoadBusy, LoadFailed, "InvalidAudioFormat", "AudioProcessingError", "TranscriptionFailed"}

\* C11: every error raised while a job is processed is captured into the job:
\* a job is PROCESSING only while its coroutine is suspended in an await,
\* and the step that ends the coroutine leaves the job COMPLETED with a
\* result or FAILED with the error that was raised; a failed work item
\* (model load or model runtime) always gives FAILED
C11_ErrorsCaptured ==
    /\ [](\A j \in DOMAIN jobObj :
            /\ jobObj[j].status = "PROCESSING" => pc[j] \in {"await_load", "await_ts"}
            /\ (pc[j] = "done" /\ jobObj[j].status = "PENDING") => j \notin jobs)
    /\ [][\A j \in DOMAIN jobObj :
            (pc[j] \in {"scheduled", "await_load", "await_ts"} /\ pc'[j] = "done") =>
                /\ \/ j \notin jobs /\ pc[j] = "scheduled" /\ jobObj'[j] = jobObj[j]
                   \/ jobObj'[j].status = "COMPLETED" /\ jobObj'[j].result # None /\ jobObj'[j].error = None
                   \/ jobObj'[j].status = "FAILED" /\ jobObj'[j].error \in JobErrors
                /\ (task[j].state = "finished" /\ ~task[j].ok) =>
                       jobObj'[j].status = "FAILED" /\ jobObj'[j].error \in {LoadFailed, "TranscriptionFailed"}]_vars

\* a job whose model load raised has ended FAILED with that error
C11_Witness ==
    \E j \in DOMAIN jobObj : pc[j] = "done" /\ jobObj[j].status = "FAILED" /\ jobObj[j].error = LoadFailed /\ jobObj[j].result = None


\* C12 as stated: every job of an accepted submission (its background task
\* is scheduled) eventually reaches COMPLETED or FAILED
C12_JobsTerminate ==
    \A j \in JobIds : [](pc[j] = "scheduled" => <>(j \in DOMAIN jobObj /\ jobObj[j].status \in {"COMPLETED", "FAILED"}))

(******************* properties of the file functions **********************)
\* C13: for a zero-byte file the Sniffer returns no tag, and
\* validate_audio_file rejects the file with InvalidAudioFormat, whatever its
\* extension, having invoked no probe, no signature read and no decoding
\* library
C13_ZeroByteRejected ==
    (pin.exists /\ pin.size = "zero") =>
        /\ fcall.fn = "detect_audio_format" => (fcall.tag = None /\ fcall.trace = <<>>)
        /\ fcall.fn = "validate_audio_file" => (fcall.error = "InvalidAudioFormat" /\ fcall.trace = <<>>)

C15_MissingPathGivesExtension ==
    (fcall.fn = "detect_audio_format" /\ ~pin.exists) => fcall.tag = pin.ext

\* C16: probe, then signature, then extension, first result wins: when the
\* probe yields no tag, a usable file whose header matches an entry of the
\* signature table gets a tag of that entry's family, and only a file whose
\* header matches no entry gets its extension
C16_StrategyOrder ==
    (/\ fcall.fn = "detect_audio_format"
     /\ pin.exists
     /\ pin.size # "zero"
     /\ ProbeTag(fcall.tools[1], pin.ext) = None) =>
        IF SignatureFamily(fsig) # {}
        THEN fcall.tag \in SignatureFamily(fsig)
        ELSE fcall.tag = pin.ext

\* C17: two calls of detect_audio_format in a row on the same file, with the
\* same bytes, return the same tag, whatever the outcome of the probe
\* invocation in each of them (a probe that succeeds in both reports the same
\* format in both)
C17_SniffIdempotent ==
    (/\ fcall.fn = "detect_audio_format"
     /\ fprev # NoTag
     /\ ({fprev.probe, fcall.tools[1]} \cap ProbeFailures = {} => fprev.probe = fcall.tools[1])) =>
        fcall.tag = fprev.tag

\* C18: when a probe invocation of validate_audio_file_integrity times out,
\* the call returns valid = FALSE with the detail saying that the validation
\* timed out, and the timed out invocation is the last thing it invoked: no
\* retry, no duration check
C18_TimeoutIsFailure ==
    (fcall.fn = "validate_audio_file_integrity" /\ \E i \in DOMAIN fcall.tools : fcall.tools[i] = "timeout") =>
        /\ ~fcall.valid
        /\ fcall.detail = "timed out"
        /\ fcall.tools[Len(fcall.tools)] = "timeout"
        /\ Len(fcall.trace) = Len(fcall.tools)
        /\ "get_duration" \notin {fcall.trace[i] : i \in DOMAIN fcall.trace}

C18_Witness ==
    /\ fcall.fn = "validate_audio_file_integrity"
    /\ fcall.tools = <<"nonzero", "timeout">>
    /\ ~fcall.valid
    /\ fcall.detail = "timed out"

\* C19: when ffprobe is absent from the host, validate_audio_file_integrity
\* returns valid = TRUE with no detail, and the pipeline goes on to the decode
\* step: no conversion is started for the validation, and none has run when
\* the file is first decoded
C19_AbsentProbeSkips ==
    probed.absent =>
        /\ probed.valid
        /\ probed.detail = None
        /\ ppc # "convert"
        /\ \A i \in DOMAIN stages : stages[i] # "CONVERTING_convert"
        /\ nLoad = 0 => nConv = 0

C19_Witness ==
    /\ probed.absent
    /\ probed.valid
    /\ nLoad = 1
    /\ nConv = 0

\* what one validate_audio_file_integrity call invoked and got
ProbeCalls == {i \in DOMAIN fcall.trace : fcall.trace[i] \in {"ffprobe_audio_stream", "ffprobe_container"}}

Outcomes == {fcall.tools[i] : i \in DOMAIN fcall.tools}

DurationCheck == IF fcall.trace # <<>> /\ fcall.trace[Len(fcall.trace)] = "get_duration" THEN fcall.tools[Len(fcall.tools)] ELSE None

\* at most two probe invocations, the first requiring an audio stream, the
\* second accepting a container and made only after a nonzero exit of the
\* first
TwoProbes ==
    /\ Cardinality(ProbeCalls) \in {1, 2}
    /\ fcall.trace[1] = "ffprobe_audio_stream"
    /\ Cardinality(ProbeCalls) = 2 <=> fcall.tools[1] = "nonzero"
    /\ Cardinality(ProbeCalls) = 2 => fcall.trace[2] = "ffprobe_container"

\* valid = TRUE only after a zero exit and a successful duration check;
\* valid = FALSE with a detail after two nonzero exits or a failed check
VerdictFollowsProbes ==
    /\ fcall.valid => (fcall.detail = None /\ "zero" \in Outcomes /\ DurationCheck = "ok")
    /\ (fcall.tools = <<"nonzero", "nonzero">> \/ DurationCheck = "raises") => (~fcall.valid /\ fcall.detail # None)

\* C20: validate_audio_file_integrity invokes the probe at most twice, the
\* second time only after a nonzero exit of the first; when the tool is
\* present and no invocation times out, it returns valid = TRUE with no detail
\* only if an invocation exited zero and the duration check succeeded, and
\* valid = FALSE with a detail when both invocations fail or the duration
\* check fails
C20_ProbeContract ==
    fcall.fn = "validate_audio_file_integrity" =>
        /\ TwoProbes
        /\ Outcomes \cap {"notfound", "timeout"} = {} => VerdictFollowsProbes

\* C20 as the code has it: the same when, besides, no invocation raises
\* another exception; an invocation that does ends the call with valid = TRUE
\* and no detail, no invocation having exited zero
C20_ProbeContractUnlessError ==
    fcall.fn = "validate_audio_file_integrity" =>
        /\ TwoProbes
        /\ Outcomes \cap {"notfound", "timeout", "error"} = {} => VerdictFollowsProbes
        /\ fcall.tools[Len(fcall.tools)] = "error" => (fcall.valid /\ fcall.detail = None /\ DurationCheck = None)

C20_Witness ==
    /\ fcall.fn = "validate_audio_file_integrity"
    /\ fcall.tools = <<"nonzero", "zero", "ok">>
    /\ fcall.trace = <<"ffprobe_audio_stream", "ffprobe_container", "get_duration">>
    /\ fcall.valid

C22_MissingToolReported ==
    [][(perr.message = "FFmpeg not found" /\ pre_outcome' = "raised") =>
          (/\ perr'.type = "AudioProcessingError"
           /\ perr'.step \in {"convert_audio_file", "convert_video_to_audio"}
           /\ perr'.message = "FFmpeg not found")]_vars

\* C23: for an audio-format file that the Integrity Prober reports valid and
\* whose decoding does not fail, the run has no CONVERTING stage and never
\* invokes the transcoder, and preprocess_audio returns the canonical file
\* (it raises only when get_audio_info or the final write fails)
C23_ValidAudioSkipsConversion ==
    (probed.calls > 0 /\ probed.valid /\ probed.detail = None /\ nLoadFail = 0) =>
        /\ nConv = 0
        /\ converted_file = None
        /\ ppc \notin {"extract", "convert", "rescue"}
        /\ stages = <<"VALIDATING">>
        /\ pre_outcome = "returned" => processed_file = Canonical
        /\ ppc = "ts_begin" => Canonical \in disk
        /\ pre_outcome = "raised" => perr.origin \in {"get_audio_info", "save"}

C23_Witness ==
    /\ pin.ext = "wav"
    /\ probed.calls = 1
    /\ probed.valid
    /\ nLoad = 2
    /\ nLoadFail = 0
    /\ nConv = 0
    /\ stages = <<"VALIDATING">>
    /\ pre_outcome = "returned"
    /\ processed_file = Canonical

\* C24: for a video-format upload the run invokes the extract conversion
\* exactly once and never the convert-audio path (neither after the Integrity
\* Prober, which is not called, nor as a rescue); when extraction and decoding
\* succeed preprocess_audio returns the canonical file
C24_VideoExtractedOnce ==
    (pin.ext \in FormatsRequiringConversion /\ PastBranch) =>
        /\ stages = <<"CONVERTING_extract">>
        /\ ppc \notin {"probe", "convert", "rescue"}
        /\ probed = NoProbe
        /\ nConv <= 1
        /\ ppc \notin {"extract", "except", "raise", "job_except"} /\ perr.origin # "convert_video_to_audio" => nConv = 1
        /\ pre_outcome = "returned" => (nConv = 1 /\ processed_file = Canonical)
        /\ (pre_outcome = "raised" /\ nLoadFail = 0) => perr.origin \in {"convert_video_to_audio", "get_audio_info", "save"}

C24_Witness ==
    /\ pin.ext = "mp4"
    /\ stages = <<"CONVERTING_extract">>
    /\ nConv = 1
    /\ nLoad = 2
    /\ nLoadFail = 0
    /\ pre_outcome = "returned"
    /\ processed_file = Canonical
    /\ ppc = "ts_begin"

\* a worker thread of the pool is executing the work item of o
OnWorker(o) == task[o].state \in {"running", "calling", "hung"}

\* C25: preprocessing and transcription both run on the worker pool: every
\* step that advances the progress of a job being processed (the progress
\* callbacks of validation, preprocessing and transcription) is taken while a
\* worker thread executes that job's work item, none by the coroutine on the
\* event loop
C25_BlockingWorkOnPool ==
    [][\A j \in JobIds :
          (/\ j \in DOMAIN jobObj
           /\ j \in DOMAIN jobObj'
           /\ jobObj'[j].status = "PROCESSING"
           /\ jobObj'[j].progress # jobObj[j].progress) => OnWorker(j)]_vars

\* C26: the counter of active transcriptions is the number of transcription
\* calls in flight (never negative, zero when none is in flight, whichever way
\* the calls ended), and cleanup shuts the pool down and releases the model
\* only in a state where the counter is zero
C26_CounterGatesShutdown ==
    /\ [](/\ active_transcriptions >= 0
          /\ active_transcriptions = Cardinality(InFlight)
          /\ pc[0] = "stopped" => (active_transcriptions = 0 /\ model = None /\ model_size = None))
    /\ [][(pc[0] = "draining" /\ pc'[0] = "stopped") => (active_transcriptions = 0 /\ InFlight = {})]_vars

\* cleanup has released the model after waiting for a job's transcription,
\* which ended with an error
C26_Witness ==
    /\ pc[0] = "stopped"
    /\ lres = Ret("cleanup", None, "released")
    /\ model = None
    /\ active_transcriptions = 0
    /\ \E j \in DOMAIN jobObj : jobObj[j].status = "FAILED" /\ jobObj[j].error = "TranscriptionFailed"

\* C27: the wait of cleanup is bounded: once cleanup has been called it
\* releases the model and returns, also when an active transcription never
\* finishes
C27_DrainTerminates == (pc[0] = "draining") ~> (pc[0] = "stopped")

(********************** properties of the job registry *********************)
\* C28: a sweep removes exactly the jobs created strictly more than the
\* retention window ago, whatever their status, and changes nothing else in
\* the registry or in any job; a progress query for a job the registry no
\* longer holds is answered with not found
C28_SweepRemovesExactlyOld ==
    /\ [][lres'.call = "cleanup_old_jobs" =>
            /\ jobObj' = jobObj
            /\ jobs' \subseteq jobs
            /\ lres'.value = "swept" => \A j \in jobs : j \notin jobs' <=> now - jobObj[j].created_at > JobCleanupMaxAge]_vars
    /\ [](\A j \in RegIds : (lres.call = "get_job_progress" /\ lres.size = ToString(j)) => (lres.value = "404" <=> j \notin jobs))

\* a job still being processed has just been removed by a sweep, while a job
\* whose age is exactly the window is kept
C28_Witness ==
    /\ lres = Ret("cleanup_old_jobs", None, "swept")
    /\ 1 \in DOMAIN jobObj /\ 1 \notin jobs /\ jobObj[1].status = "PROCESSING"
    /\ 2 \in jobs /\ now - jobObj[2].created_at = JobCleanupMaxAge

\* C29: while the service runs no job stays in the registry for ever: every
\* job created is removed by a later sweep, once it is older than the
\* retention window; and a sweep that raised leaves the periodic task running
C29_JobsEventuallyRemoved ==
    /\ \A j \in RegIds : [](j \in jobs => <>(j \notin jobs))
    /\ [](lres = Ret("cleanup_old_jobs", None, "raised") => Serving)

\* both jobs have been created and removed, the second by the sweep just run
C29_Witness ==
    /\ DOMAIN jobObj = RegIds
    /\ jobs = {}
    /\ lres = Ret("cleanup_old_jobs", None, "swept")
    /\ jobObj[2].status = "PENDING"
    /\ now - jobObj[2].created_at > JobCleanupMaxAge


(********************* properties of one shared Job ************************)
\* C30: mutations and reads of one job are serialized by the job's lock: the
\* worker is never inside update_progress / set_status / set_result /
\* set_error while the client is inside to_dict, and the dict to_dict
\* returns equals the job's fields as they were before or after a whole
\* mutation: never COMPLETED with a null result or a progress below 100,
\* never FAILED with a null error.
C30_SnapshotWhole ==
    /\ ~(Reading /\ wcall.fn # None /\ InSection(wcall.at, Len(FieldsWritten(wcall.fn))))
    /\ rcall.at = Returned =>
          /\ rcall.snap \in seen
          /\ rcall.snap.status = "COMPLETED" => (rcall.snap.result # None /\ rcall.snap.progress = Pct(100))
          /\ rcall.snap.status = "FAILED" => rcall.snap.error # None

\* to_dict returned the PROCESSING job while the worker, which called
\* set_result during the read, is still waiting for the lock
C30_Witness ==
    /\ rcall.at = Returned
    /\ rcall.snap = [status |-> "PROCESSING", progress |-> Pct(50), result |-> None, error |-> None]
    /\ wcall.fn = "set_result" /\ wcall.at = 0
    /\ jobObj[LJob].status = "PROCESSING"

\* C31: with cleanup of temp files configured, the canonical waveform that
\* preprocess_audio returned is gone from the disk once transcribe_audio has
\* returned or raised: after a response, after a failure of the model
\* runtime and after a failure to build the response alike.
C31_CanonicalDeleted ==
    (CleanupTempFiles /\ ppc \in {"job_except", "done"} /\ processed_file # None) => processed_file \notin disk

\* preprocess_audio returned the canonical waveform, building the response
\* failed, and transcribe_audio has raised
C31_Witness ==
    /\ ppc = "job_except"
    /\ pre_outcome = "returned"
    /\ processed_file = Canonical
    /\ perr.origin = "response"
    /\ Canonical \notin disk

\* C32: when the decode raises after validation (in get_audio_info or in the
\* first librosa.load) and the run has converted nothing yet, the next step
\* of the pipeline is the rescue conversion, and a rescue conversion that
\* returns is followed by the second load; the run does not fail at once.
C32_DecodeFailureRescued ==
    [][/\ (/\ converted_file = None
           /\ \/ ppc = "info" /\ ppc' = "except"
              \/ ppc = "load1" /\ nLoadFail' = nLoadFail + 1)
          => (ppc' = "rescue" /\ stages' = Append(stages, "CONVERTING_rescue"))
       /\ (ppc = "rescue" /\ converted_file' # converted_file) => (ppc' = "load2" /\ nConv' = 1)]_vars

\* C33: whenever preprocess_audio has raised, the error it raised is an
\* AudioProcessingError whose step is the step in which the failure
\* originated (the converter, get_audio_info, the load, the write, ...)
C33_FailureNamesStep ==
    pre_outcome = "raised" => (perr.type = "AudioProcessingError" /\ perr.step = perr.origin)

\* C34: the upload scratch file of a submission does not outlive the
\* processing of its job: once process_transcription_job has ended (the job
\* completed, failed, or was no longer in the registry) or the submission
\* has failed, the file is not on the disk.
C34_UploadDeleted ==
    \A j \in RegIds : Pos(j) \in {"done", "submit_failed"} => UploadOf(j) \notin disk

\* C35: the model identifier in the result of a job is the size of the
\* model whose runtime transcribed the job's file, whatever loads of another
\* size ran while the job was being transcribed.
C35_ModelReported ==
    [][\A j \in DOMAIN jobObj :
          (jobObj[j].status # "COMPLETED" /\ jobObj'[j].status = "COMPLETED") =>
              jobObj'[j].result = task[j].used]_vars

\* C36: a run loads the waveform a second time only after a rescue
\* conversion of that run returned: after a first load that succeeded, or
\* that failed on an already converted file, there is no second load.
C36_SecondLoadOnlyAfterRescue ==
    nLoad >= 2 =>
        /\ \E i \in 1..Len(stages) : stages[i] = "CONVERTING_rescue"
        /\ nLoadFail >= 1

\* C37: in the asynchronous flow a job's status only moves PENDING ->
\* PROCESSING -> COMPLETED or PENDING -> PROCESSING -> FAILED: CANCELLED is
\* never reached, and once a job is COMPLETED or FAILED no progress update,
\* status change, result or error is applied to it.
C37_StatusLifecycle ==
    /\ [](\A j \in DOMAIN jobObj : jobObj[j].status \in {"PENDING", "PROCESSING", "COMPLETED", "FAILED"})
    /\ [][\A j \in DOMAIN jobObj :
            /\ jobObj[j].status \in {"COMPLETED", "FAILED"} => jobObj'[j] = jobObj[j]
            /\ jobObj'[j].status # jobObj[j].status =>
                  <<jobObj[j].status, jobObj'[j].status>> \in
                      {<<"PENDING", "PROCESSING">>, <<"PROCESSING", "COMPLETED">>, <<"PROCESSING", "FAILED">>}]_vars

\* the job went from PENDING through PROCESSING to FAILED, its progress
\* stopping where the model runtime raised, and the run is over
C37_Witness ==
    /\ ppc = "done"
    /\ jobObj[PJob].status = "FAILED"
    /\ perr.origin = "transcribe"
    /\ jobObj[PJob].progress = Last(written)
    /\ jobObj[PJob].progress < Pct(100)

\* C38: no thread holds the registry lock and a job's lock together, and
\* only the event-loop thread ever takes the registry lock; so whoever holds
\* a lock can always take its next step and release it (no deadlock), and a
\* worker that waits in a Job method waits for a to_dict of that job, never
\* for the registry lock.
C38_NoNestedLocks ==
    /\ \A t \in {"worker", "client"} : ~(job_lock = t /\ reg_lock = t)
    /\ reg_lock # "worker"
    /\ job_lock = "worker" => ENABLED (WWrite \/ WRelease)
    /\ job_lock = "client" => ENABLED (RRead \/ RRelease)
    /\ reg_lock = "client" => ENABLED (MBody \/ MRelease)
    /\ (wcall.fn # None /\ wcall.at = 0 /\ ~ENABLED WAcquire) => (job_lock = "client" /\ Reading /\ reg_lock = None)

\* the sweep has removed the job from the registry, still inside its `with`
\* block, while the worker is inside update_progress on that job
C38_Witness ==
    /\ reg_lock = "client"
    /\ mcall = [fn |-> "cleanup_old_jobs", at |-> 2]
    /\ LJob \notin jobs
    /\ job_lock = "worker"
    /\ wcall.fn = "update_progress" /\ wcall.at = 1

\* C39: a submission that is rejected (503, 400, 413) changes nothing of the
\* registry, of the jobs or of the coroutines; a submission that fails after
\* its job was created removes that job's entry and no other, and its job is
\* never processed: it stays PENDING and unscheduled.
C39_FailedSubmissionLeavesNothing ==
    /\ [](\A j \in RegIds : Pos(j) = "submit_failed" => (j \notin jobs /\ jobObj[j].status = "PENDING"))
    /\ [][/\ lres'.call = "submit_transcription_job" => UNCHANGED <<jobObj, jobs, pc>>
          /\ \A j \in RegIds :
               /\ (Pos(j) = "reading" /\ Pos(j)' = "submit_failed") => (jobs' = jobs \ {j} /\ jobObj' = jobObj)
               /\ Pos(j) = "submit_failed" => (Pos(j)' = "submit_failed" /\ jobObj'[j] = jobObj[j])]_vars

\* the second submission failed after its upload was read; its entry is gone
\* and the entry of the first job, which is being processed, is still there
C39_Witness ==
    /\ Pos(2) = "submit_failed"
    /\ jobs = {1}
    /\ jobObj[2].status = "PENDING"
    /\ jobObj[1].status = "PROCESSING"

\* C40: the loading flag is set exactly while a load_model call has its work
\* item with the executor; the step that ends a load clears the flag, on
\* success and on failure, and a failed load leaves _model and _model_size
\* as they were; a request is rejected as "already being loaded" only while
\* such a load is in progress.
C40_LoadingFlag ==
    /\ [](is_loading <=> \E o \in Owners : task[o].kind = "load")
    /\ [][\A o \in Owners :
            (task[o].kind = "load" /\ task'[o].kind # "load") =>
                /\ ~is_loading'
                /\ ~task[o].ok => (model' = model /\ model_size' = model_size)]_vars
    /\ [][(\/ lres'.value = LoadBusy
           \/ \E j \in DOMAIN jobObj : jobObj'[j].error = LoadBusy /\ jobObj[j].error # LoadBusy)
          => \E o \in Owners : task[o].kind = "load"]_vars

\* a load of another size has failed: the flag is clear and the model loaded
\* before is still in place
C40_Witness ==
    /\ lres.call = "load_model"
    /\ lres.value = LoadFailed
    /\ model = DefaultModelSize
    /\ model_size = DefaultModelSize
    /\ lres.size # DefaultModelSize
    /\ ~is_loading

=============================================================================
